---- MODULE Spec2Model ----
(***************************************************************************)
(* State-machine model of the two escrow contracts of proofpay-contract:   *)
(*   - the social payment contract        src/src/contract.rs              *)
(*   - the proofpay-cosmwasm contract     src/packages/contracts-cosmwasm  *)
(* One action per execute entry point.  Every handler is modelled twice    *)
(* over the same checks: an operator <handler>_result giving the value the *)
(* call returns ("Ok" or the name of the error, in the order the code      *)
(* tests them) and the action, which commits the writes and the bank       *)
(* messages when the result is "Ok" and otherwise reverts (the host rolls  *)
(* the call back: nothing is persisted and no message is sent).  A bank    *)
(* message the host cannot honour (balance too small, zero coin) fails the *)
(* call as well.  Amounts are in the one denomination of the record;       *)
(* `funds` is the coin of that denomination found in info.funds (0 when    *)
(* there is none).                                                         *)
(***************************************************************************)
EXTENDS Integers, Sequences, FiniteSets, TLC

\* ------------------------------------------------------------ bounds
MaxPayments == 1
MaxPaymentsWide == 2
MaxCwPayments == 1
MaxCwPaymentsWide == 2
MaxTime == 1
MaxTasks == 1
MaxBlockTime == 3

\* ------------------------------------------------------------ inputs
Wallets == {"user1", "user2", "user3"}
Usernames == {"alice", "bob", "charlie"}
\* The registrations of the test fixture register_users.
RegisterInputs == {<<"user1", "alice">>, <<"user2", "bob">>, <<"user3", "charlie">>}
None == "none"
Amounts == {0, 1}
Funds == {0, 1}
PaymentIds == 1..MaxPaymentsWide
ProofTypes == {"None", "Photo", "Document", "Location", "ZkTLS", "Manual", "Soft", "Hybrid"}
ProofTypeInputs == {"None", "Manual"}
ProofDataInputs == {"photo_hash"}

\* ------------------------------------------------------------ state
VARIABLES
    USERS_BY_USERNAME,  \* username -> wallet_address of the User, or None
    USERS_BY_WALLET,    \* wallet -> username, or None
    next_payment_id,    \* STATE.next_payment_id
    PAYMENTS,           \* payment id -> Payment
    USER_PAYMENTS,      \* set of (username, payment id) keys
    balance,            \* bank balance of the contract account
    attached,           \* payment id -> funds attached to the creating call
    transfers,          \* payment id -> sequence of bank messages sent for it
    last,               \* the most recent call that returned Ok
    \* proofpay-cosmwasm contract
    CW_PAYMENTS,        \* PAYMENTS: payment id -> Payment
    CW_USER_PAYMENTS,   \* USER_PAYMENTS: address -> list of payment ids
    PENDING_BALANCES,   \* address -> Uint128 (an absent entry reads as 0)
    STATS,              \* total_users, total_payments, total_volume
    now,                \* env.block.time.seconds()
    cw_balance,         \* bank balance of the contract account
    cw_transfers,       \* payment id -> sequence of bank messages sent under it
    USERS,              \* address -> username of the User
    USERNAME_TO_ADDRESS, \* username -> address
    \* task system of the social contract
    next_task_id,       \* STATE.next_task_id
    TASKS,              \* task id -> Task
    USER_TASKS,         \* set of (username, task id) keys
    block_time,         \* env.block.time.seconds() of the social contract's chain
    task_transfers,     \* task id -> sequence of bank messages sent for it
    \* friends system of the social contract
    FRIENDSHIPS,        \* set of (username, username) keys
    FRIEND_REQUESTS     \* (from_username, to_username) -> FriendRequestStatus

socialVars == <<USERS_BY_USERNAME, USERS_BY_WALLET, next_payment_id, PAYMENTS,
                USER_PAYMENTS, balance, attached, transfers, last>>
cwVars == <<CW_PAYMENTS, CW_USER_PAYMENTS, PENDING_BALANCES, STATS, now,
            cw_balance, cw_transfers>>
taskVars == <<next_task_id, TASKS, USER_TASKS, block_time, task_transfers>>
friendVars == <<FRIENDSHIPS, FRIEND_REQUESTS>>
cwUserVars == <<USERS, USERNAME_TO_ADDRESS>>
vars == <<socialVars, cwVars, taskVars, friendVars, cwUserVars>>

Call(op, sender, id, funds) ==
    [op |-> op, sender |-> sender, id |-> id, funds |-> funds]

CwAddrs == {"osmo1a", "osmo1b", "osmo1c"}

InitSocial ==
    /\ USERS_BY_USERNAME = [n \in Usernames |-> None]
    /\ USERS_BY_WALLET = [w \in Wallets |-> None]
    /\ next_payment_id = 1
    /\ PAYMENTS = <<>>
    /\ USER_PAYMENTS = {}
    /\ balance = 0
    /\ attached = <<>>
    /\ transfers = <<>>
    /\ last = Call("instantiate", None, 0, 0)

InitCw ==
    /\ CW_PAYMENTS = <<>>
    /\ CW_USER_PAYMENTS = [a \in CwAddrs |-> <<>>]
    /\ PENDING_BALANCES = [a \in CwAddrs |-> 0]
    /\ STATS = [total_users |-> 0, total_payments |-> 0, total_volume |-> 0]
    /\ now = 0
    /\ cw_balance = 0
    /\ cw_transfers = <<>>

InitTask ==
    /\ next_task_id = 1
    /\ TASKS = <<>>
    /\ USER_TASKS = {}
    /\ block_time = 0
    /\ task_transfers = <<>>

InitFriends ==
    /\ FRIENDSHIPS = {}
    /\ FRIEND_REQUESTS = <<>>

InitCwUsers ==
    /\ USERS = <<>>
    /\ USERNAME_TO_ADDRESS = <<>>

Init == InitSocial /\ InitCw /\ InitTask /\ InitFriends /\ InitCwUsers

\* A slip in the rollback: the payment id taken before the failing check is
\* not given back.
RevertKeepingNextId ==
    /\ next_payment_id' = next_payment_id + 1
    /\ UNCHANGED <<USERS_BY_USERNAME, USERS_BY_WALLET, PAYMENTS, USER_PAYMENTS,
                   balance, attached, transfers, last>>

\* A call that returns Err is rolled back by the host.
Revert == UNCHANGED socialVars

\* ------------------------------------------------------------ helpers
get_username_from_wallet(wallet) == USERS_BY_WALLET[wallet]

\* The host bank module executes BankMsg::Send only for a positive coin the
\* contract can cover; otherwise the whole call fails.
BankSendOk(available, amount) == amount > 0 /\ available >= amount

BankMsg(kind, to_address, amount) ==
    [kind |-> kind, to_address |-> to_address, amount |-> amount]

\* ------------------------------------------------------------ users
\* The characters of the usernames the model offers.
username_chars(username) ==
    CASE username = "alice" -> <<"a", "l", "i", "c", "e">>
      [] username = "ALICE" -> <<"A", "L", "I", "C", "E">>
      [] username = "bob" -> <<"b", "o", "b">>
      [] username = "charlie" -> <<"c", "h", "a", "r", "l", "i", "e">>
      [] username = "ab" -> <<"a", "b">>

\* char::is_alphanumeric, over the characters in use.
is_alphanumeric(c) ==
    c \in {"a", "b", "c", "e", "h", "i", "l", "o", "r", "A", "C", "E", "I", "L"}

validate_username(username) ==
    IF Len(username_chars(username)) < 3 \/ Len(username_chars(username)) > 20
    THEN "InvalidUsername"
    ELSE IF ~(\A i \in 1..Len(username_chars(username)) :
                  is_alphanumeric(username_chars(username)[i]) \/ username_chars(username)[i] = "_")
    THEN "InvalidUsername"
    ELSE "Ok"

execute_register_user_result(wallet, username) ==
    IF validate_username(username) # "Ok" THEN "InvalidUsername"
    ELSE IF USERS_BY_USERNAME[username] # None THEN "UsernameAlreadyTaken"
    ELSE IF USERS_BY_WALLET[wallet] # None THEN "WalletAlreadyRegistered"
    ELSE "Ok"

RegisterUser(wallet, username) ==
    IF execute_register_user_result(wallet, username) # "Ok" THEN Revert
    ELSE /\ USERS_BY_USERNAME' = [USERS_BY_USERNAME EXCEPT ![username] = wallet]
         /\ USERS_BY_WALLET' = [USERS_BY_WALLET EXCEPT ![wallet] = username]
         /\ last' = Call("register_user", wallet, 0, 0)
         /\ UNCHANGED <<next_payment_id, PAYMENTS, USER_PAYMENTS, balance,
                        attached, transfers>>

\* ------------------------------------------------------------ create
Payment(id, from, to, amount, payment_type, proof_type, status) ==
    [id |-> id, from_username |-> from, to_username |-> to, amount |-> amount,
     payment_type |-> payment_type, proof_type |-> proof_type,
     proof_data |-> None, status |-> status]

\* A slip in the create handlers: the incremented counter is not saved.
StorePaymentKeepingNextId(op, wallet, payment, funds, msgs) ==
    LET id == next_payment_id IN
    /\ next_payment_id' = next_payment_id
    /\ PAYMENTS' = (id :> payment) @@ PAYMENTS
    /\ USER_PAYMENTS' = USER_PAYMENTS \cup
           {<<payment.from_username, id>>, <<payment.to_username, id>>}
    /\ attached' = (id :> funds) @@ attached
    /\ transfers' = (id :> msgs) @@ transfers
    /\ balance' = balance + funds - (IF msgs = <<>> THEN 0 ELSE msgs[1].amount)
    /\ last' = Call(op, wallet, id, funds)
    /\ UNCHANGED <<USERS_BY_USERNAME, USERS_BY_WALLET>>

\* A slip in the create handlers: the payment is indexed under its sender only.
StorePaymentIndexingSender(op, wallet, payment, funds, msgs) ==
    LET id == next_payment_id IN
    /\ next_payment_id' = next_payment_id + 1
    /\ PAYMENTS' = (id :> payment) @@ PAYMENTS
    /\ USER_PAYMENTS' = USER_PAYMENTS \cup {<<payment.from_username, id>>}
    /\ attached' = (id :> funds) @@ attached
    /\ transfers' = (id :> msgs) @@ transfers
    /\ balance' = balance + funds - (IF msgs = <<>> THEN 0 ELSE msgs[1].amount)
    /\ last' = Call(op, wallet, id, funds)
    /\ UNCHANGED <<USERS_BY_USERNAME, USERS_BY_WALLET>>

\* The tail shared by the three create handlers: take the next id, save the
\* payment, index it under both participants; the host keeps the attached
\* funds and sends the messages of the response.
StorePayment(op, wallet, payment, funds, msgs) ==
    LET id == next_payment_id IN
    /\ next_payment_id' = next_payment_id + 1
    /\ PAYMENTS' = (id :> payment) @@ PAYMENTS
    /\ USER_PAYMENTS' = USER_PAYMENTS \cup
           {<<payment.from_username, id>>, <<payment.to_username, id>>}
    /\ attached' = (id :> funds) @@ attached
    /\ transfers' = (id :> msgs) @@ transfers
    /\ balance' = balance + funds - (IF msgs = <<>> THEN 0 ELSE msgs[1].amount)
    /\ last' = Call(op, wallet, id, funds)
    /\ UNCHANGED <<USERS_BY_USERNAME, USERS_BY_WALLET>>

execute_send_direct_payment_result(wallet, to_username, amount, proof_type, funds) ==
    LET from_username == get_username_from_wallet(wallet) IN
    IF from_username = None THEN "UserNotRegistered"
    ELSE IF from_username = to_username THEN "CannotPaySelf"
    ELSE IF USERS_BY_USERNAME[to_username] = None THEN "UserNotFound"
    ELSE IF amount = 0 THEN "InvalidPaymentAmount"
    ELSE IF funds < amount THEN "InsufficientFunds"
    ELSE IF proof_type = "None" /\ ~BankSendOk(balance + funds, amount) THEN "BankError"
    ELSE "Ok"

execute_send_direct_payment(wallet, to_username, amount, proof_type, funds) ==
    IF execute_send_direct_payment_result(wallet, to_username, amount, proof_type, funds) # "Ok"
    THEN Revert
    ELSE LET status == IF proof_type = "None" THEN "Completed" ELSE "Pending"
             payment == Payment(next_payment_id, get_username_from_wallet(wallet),
                                to_username, amount, "DirectPayment", proof_type, status)
             msgs == IF proof_type = "None"
                     THEN <<BankMsg("release", USERS_BY_USERNAME[to_username], amount)>>
                     ELSE <<>>
         IN StorePayment("send_direct_payment", wallet, payment, funds, msgs)

execute_create_payment_request_result(wallet, to_username, amount, proof_type, funds) ==
    LET from_username == get_username_from_wallet(wallet) IN
    IF from_username = None THEN "UserNotRegistered"
    ELSE IF from_username = to_username THEN "CannotPaySelf"
    ELSE IF USERS_BY_USERNAME[to_username] = None THEN "UserNotFound"
    ELSE "Ok"

execute_create_payment_request(wallet, to_username, amount, proof_type, funds) ==
    IF execute_create_payment_request_result(wallet, to_username, amount, proof_type, funds) # "Ok"
    THEN Revert
    ELSE StorePayment("create_payment_request", wallet,
                      Payment(next_payment_id, get_username_from_wallet(wallet),
                              to_username, amount, "PaymentRequest", proof_type, "Pending"),
                      funds, <<>>)

execute_create_help_request_result(wallet, to_username, amount, proof_type, funds) ==
    LET from_username == get_username_from_wallet(wallet) IN
    IF from_username = None THEN "UserNotRegistered"
    ELSE IF from_username = to_username THEN "CannotPaySelf"
    ELSE IF USERS_BY_USERNAME[to_username] = None THEN "UserNotFound"
    ELSE IF funds < amount THEN "InsufficientFunds"
    ELSE "Ok"

execute_create_help_request(wallet, to_username, amount, proof_type, funds) ==
    IF execute_create_help_request_result(wallet, to_username, amount, proof_type, funds) # "Ok"
    THEN Revert
    ELSE StorePayment("create_help_request", wallet,
                      Payment(next_payment_id, get_username_from_wallet(wallet),
                              to_username, amount, "HelpRequest", proof_type, "Pending"),
                      funds, <<>>)

\* ------------------------------------------------------------ settle
\* PAYMENTS.update with a closure that sets the status (and the evidence).
UpdatePayment(op, wallet, id, funds, status, proof_data, msgs) ==
    /\ PAYMENTS' = [PAYMENTS EXCEPT ![id].status = status, ![id].proof_data = proof_data]
    /\ transfers' = [transfers EXCEPT ![id] = @ \o msgs]
    /\ balance' = balance + funds - (IF msgs = <<>> THEN 0 ELSE msgs[1].amount)
    /\ last' = Call(op, wallet, id, funds)
    /\ UNCHANGED <<USERS_BY_USERNAME, USERS_BY_WALLET, next_payment_id,
                   USER_PAYMENTS, attached>>

\* A slip in the submit handler: the update closure does not test the status.
submit_proof_result_without_status_check(wallet, payment_id) ==
    LET username == get_username_from_wallet(wallet) IN
    IF username = None THEN "UserNotRegistered"
    ELSE IF payment_id \notin DOMAIN PAYMENTS THEN "PaymentNotFound"
    ELSE IF PAYMENTS[payment_id].to_username # username THEN "PaymentNotAuthorized"
    ELSE IF PAYMENTS[payment_id].proof_type = "None" THEN "NoProofRequired"
    ELSE "Ok"

execute_submit_proof_result(wallet, payment_id) ==
    LET username == get_username_from_wallet(wallet) IN
    IF username = None THEN "UserNotRegistered"
    ELSE IF payment_id \notin DOMAIN PAYMENTS THEN "PaymentNotFound"
    ELSE IF PAYMENTS[payment_id].to_username # username THEN "PaymentNotAuthorized"
    ELSE IF PAYMENTS[payment_id].proof_type = "None" THEN "NoProofRequired"
    ELSE IF PAYMENTS[payment_id].status # "Pending" THEN "PaymentAlreadyCompleted"
    ELSE "Ok"

execute_submit_proof(wallet, payment_id, proof_data) ==
    IF execute_submit_proof_result(wallet, payment_id) # "Ok" THEN Revert
    ELSE UpdatePayment("submit_proof", wallet, payment_id, 0,
                       "ProofSubmitted", proof_data, <<>>)

\* A slip in the authorization match: the requester of a PaymentRequest approves.
authorized_requester(payment, username) == payment.from_username = username

\* The authorization match of execute_approve_payment and execute_reject_payment.
authorized(payment, username) ==
    CASE payment.payment_type = "DirectPayment" -> payment.from_username = username
      [] payment.payment_type = "PaymentRequest" -> payment.to_username = username
      [] payment.payment_type = "HelpRequest" -> payment.from_username = username

\* A slip in the approve handler: the update closure does not test Completed.
approve_result_without_completed_check(wallet, payment_id, funds) ==
    LET username == get_username_from_wallet(wallet) IN
    IF username = None THEN "UserNotRegistered"
    ELSE IF payment_id \notin DOMAIN PAYMENTS THEN "PaymentNotFound"
    ELSE IF ~authorized(PAYMENTS[payment_id], username) THEN "PaymentNotAuthorized"
    ELSE IF /\ PAYMENTS[payment_id].proof_type # "None"
            /\ PAYMENTS[payment_id].status # "ProofSubmitted" THEN "ProofRequired"
    ELSE IF ~BankSendOk(balance + funds, PAYMENTS[payment_id].amount) THEN "BankError"
    ELSE "Ok"

execute_approve_payment_result(wallet, payment_id, funds) ==
    LET username == get_username_from_wallet(wallet) IN
    IF username = None THEN "UserNotRegistered"
    ELSE IF payment_id \notin DOMAIN PAYMENTS THEN "PaymentNotFound"
    ELSE IF ~authorized(PAYMENTS[payment_id], username) THEN "PaymentNotAuthorized"
    ELSE IF /\ PAYMENTS[payment_id].proof_type # "None"
            /\ PAYMENTS[payment_id].status # "ProofSubmitted" THEN "ProofRequired"
    ELSE IF PAYMENTS[payment_id].status = "Completed" THEN "PaymentAlreadyCompleted"
    ELSE IF ~BankSendOk(balance + funds, PAYMENTS[payment_id].amount) THEN "BankError"
    ELSE "Ok"

\* The account the approve handler pays: the wallet of payment.to_username.
approve_recipient(payment) == USERS_BY_USERNAME[payment.to_username]

execute_approve_payment(wallet, payment_id, funds) ==
    IF execute_approve_payment_result(wallet, payment_id, funds) # "Ok" THEN Revert
    ELSE LET payment == PAYMENTS[payment_id] IN
         UpdatePayment("approve_payment", wallet, payment_id, funds,
                       "Completed", payment.proof_data,
                       <<BankMsg("release", approve_recipient(payment), payment.amount)>>)

execute_reject_payment_result(wallet, payment_id) ==
    LET username == get_username_from_wallet(wallet) IN
    IF username = None THEN "UserNotRegistered"
    ELSE IF payment_id \notin DOMAIN PAYMENTS THEN "PaymentNotFound"
    ELSE IF ~authorized(PAYMENTS[payment_id], username) THEN "PaymentNotAuthorized"
    ELSE IF PAYMENTS[payment_id].status \in {"Completed", "Cancelled"} THEN "PaymentAlreadyCompleted"
    ELSE "Ok"

execute_reject_payment(wallet, payment_id) ==
    IF execute_reject_payment_result(wallet, payment_id) # "Ok" THEN Revert
    ELSE UpdatePayment("reject_payment", wallet, payment_id, 0,
                       "Rejected", PAYMENTS[payment_id].proof_data, <<>>)

\* The messages of a successful cancel: a refund for a HelpRequest only.
cancel_msgs(payment) ==
    IF payment.payment_type = "HelpRequest"
    THEN <<BankMsg("refund", USERS_BY_USERNAME[payment.from_username], payment.amount)>>
    ELSE <<>>

execute_cancel_payment_result(wallet, payment_id) ==
    LET username == get_username_from_wallet(wallet) IN
    IF username = None THEN "UserNotRegistered"
    ELSE IF payment_id \notin DOMAIN PAYMENTS THEN "PaymentNotFound"
    ELSE IF PAYMENTS[payment_id].from_username # username THEN "OnlySenderCanCancel"
    ELSE IF PAYMENTS[payment_id].status = "Completed" THEN "PaymentAlreadyCompleted"
    ELSE IF PAYMENTS[payment_id].status = "Cancelled" THEN "PaymentAlreadyCancelled"
    ELSE IF /\ cancel_msgs(PAYMENTS[payment_id]) # <<>>
            /\ ~BankSendOk(balance, PAYMENTS[payment_id].amount) THEN "BankError"
    ELSE "Ok"

execute_cancel_payment(wallet, payment_id) ==
    IF execute_cancel_payment_result(wallet, payment_id) # "Ok" THEN Revert
    ELSE UpdatePayment("cancel_payment", wallet, payment_id, 0,
                       "Cancelled", PAYMENTS[payment_id].proof_data,
                       cancel_msgs(PAYMENTS[payment_id]))

\* ------------------------------------------------------------ queries
\* USER_PAYMENTS.prefix(username).range(.., Order::Ascending): the payment ids
\* indexed under the username, in ascending order.
RECURSIVE Ascending(_)
Ascending(ids) ==
    IF ids = {} THEN <<>>
    ELSE LET least == CHOOSE x \in ids : \A y \in ids : x <= y
         IN <<least>> \o Ascending(ids \ {least})

user_payment_ids(username) ==
    Ascending({key[2] : key \in {k \in USER_PAYMENTS : k[1] = username}})

\* The payments a query pushes: those of the listed ids that PAYMENTS.load finds.
RECURSIVE LoadPayments(_)
LoadPayments(ids) ==
    IF ids = <<>> THEN <<>>
    ELSE (IF Head(ids) \in DOMAIN PAYMENTS THEN <<PAYMENTS[Head(ids)]>> ELSE <<>>)
             \o LoadPayments(Tail(ids))

query_payment_history(username) == LoadPayments(user_payment_ids(username))

IsPendingPayment(payment) == payment.status \in {"Pending", "ProofSubmitted"}

query_pending_payments(username) ==
    SelectSeq(query_payment_history(username), IsPendingPayment)

\* ------------------------------------------------------------ entry points
\* execute: one disjunct per ExecuteMsg variant.  max_payments caps the id
\* counter.  Funds are attached to the calls whose handler or test reads them.
Next(max_payments) ==
    \/ \E r \in RegisterInputs : RegisterUser(r[1], r[2]) /\ UNCHANGED <<cwVars, taskVars, friendVars, cwUserVars>>
    \/ \E w \in Wallets, to \in Usernames, a \in Amounts, pt \in ProofTypeInputs, f \in Funds :
           /\ next_payment_id <= max_payments
           /\ execute_send_direct_payment(w, to, a, pt, f)
           /\ UNCHANGED <<cwVars, taskVars, friendVars, cwUserVars>>
    \/ \E w \in Wallets, to \in Usernames, a \in Amounts, pt \in ProofTypeInputs :
           /\ next_payment_id <= max_payments
           /\ execute_create_payment_request(w, to, a, pt, 0)
           /\ UNCHANGED <<cwVars, taskVars, friendVars, cwUserVars>>
    \/ \E w \in Wallets, to \in Usernames, a \in Amounts, pt \in ProofTypeInputs, f \in Funds :
           /\ next_payment_id <= max_payments
           /\ execute_create_help_request(w, to, a, pt, f)
           /\ UNCHANGED <<cwVars, taskVars, friendVars, cwUserVars>>
    \/ \E w \in Wallets, id \in PaymentIds, pd \in ProofDataInputs :
           execute_submit_proof(w, id, pd) /\ UNCHANGED <<cwVars, taskVars, friendVars, cwUserVars>>
    \/ \E w \in Wallets, id \in PaymentIds, f \in Funds :
           execute_approve_payment(w, id, f) /\ UNCHANGED <<cwVars, taskVars, friendVars, cwUserVars>>
    \/ \E w \in Wallets, id \in PaymentIds :
           execute_reject_payment(w, id) /\ UNCHANGED <<cwVars, taskVars, friendVars, cwUserVars>>
    \/ \E w \in Wallets, id \in PaymentIds :
           execute_cancel_payment(w, id) /\ UNCHANGED <<cwVars, taskVars, friendVars, cwUserVars>>

\* The social contract with a single payment.
Spec == Init /\ [][Next(MaxPayments)]_vars

\* The social contract with two payments sharing the contract's balance.
SpecWide == Init /\ [][Next(MaxPaymentsWide)]_vars

\* ============================================================ proofpay-cosmwasm
MAX_DESCRIPTION_LENGTH == 500
MAX_PROOF_SIZE == 10000
MAX_REASON_LENGTH == 200

\* Inputs of the proofpay-cosmwasm calls.
CwSenders == {"osmo1a", "osmo1b"}
CwRecipients == {"osmo1b", "osmo1c", "not-an-address"}
CwAmounts == {0, 1}
CwTokens == {<<>>, <<"cw20">>}
DescriptionLengths == {0, MAX_DESCRIPTION_LENGTH + 1}
ProofLengths == {1, MAX_PROOF_SIZE + 1}
ReasonLengths == {0, 1, MAX_REASON_LENGTH + 1}

CwRevert == UNCHANGED cwVars

\* deps.api.addr_validate
addr_validate(address) == address \in CwAddrs

\* format!("{}:{}:{}:{}", sender, recipient, amount, env.block.time.seconds()):
\* validated addresses hold no ':', so the string determines its four parts.
payment_id_of(sender, recipient, amount, seconds) == <<sender, recipient, amount, seconds>>

\* The payment ids callers pass: the stored ones and one that is not stored.
UnknownId == <<"osmo1a", "osmo1a", 0, 0>>
CwIds == DOMAIN CW_PAYMENTS \cup {UnknownId}

execute_create_payment_result(sender, recipient, amount, description_len) ==
    IF ~addr_validate(recipient) THEN "InvalidAddress"
    ELSE IF recipient = sender THEN "CannotPaySelf"
    ELSE IF amount = 0 THEN "InvalidAmount"
    ELSE IF description_len > MAX_DESCRIPTION_LENGTH THEN "InvalidDescriptionLength"
    ELSE "Ok"

execute_create_payment(sender, recipient, amount, token, description_len, requires_proof, funds) ==
    IF execute_create_payment_result(sender, recipient, amount, description_len) # "Ok"
    THEN CwRevert
    ELSE LET payment_id == payment_id_of(sender, recipient, amount, now)
             payment == [id |-> payment_id, sender |-> sender, recipient |-> recipient,
                         amount |-> amount, token |-> token, status |-> "Pending",
                         proof_data |-> <<>>, created_at |-> now,
                         completed_at |-> <<>>, requires_proof |-> requires_proof]
         IN /\ CW_PAYMENTS' = (payment_id :> payment) @@ CW_PAYMENTS
            /\ CW_USER_PAYMENTS' =
                   [CW_USER_PAYMENTS EXCEPT ![sender] = Append(@, payment_id),
                                            ![recipient] = Append(@, payment_id)]
            /\ PENDING_BALANCES' = [PENDING_BALANCES EXCEPT ![recipient] = @ + amount]
            /\ STATS' = [STATS EXCEPT !.total_payments = @ + 1,
                                      !.total_volume = @ + amount]
            /\ cw_balance' = cw_balance + funds
            /\ cw_transfers' = cw_transfers @@ (payment_id :> <<>>)
            /\ UNCHANGED now

execute_cw_submit_proof_result(sender, payment_id, proof_len) ==
    IF payment_id \notin DOMAIN CW_PAYMENTS THEN "PaymentNotFound"
    ELSE IF CW_PAYMENTS[payment_id].status # "Pending" THEN "PaymentNotPending"
    ELSE IF sender # CW_PAYMENTS[payment_id].recipient THEN "Unauthorized"
    ELSE IF ~CW_PAYMENTS[payment_id].requires_proof THEN "InvalidProof"
    ELSE IF proof_len > MAX_PROOF_SIZE THEN "InvalidProof"
    ELSE "Ok"

execute_cw_submit_proof(sender, payment_id, proof_len) ==
    IF execute_cw_submit_proof_result(sender, payment_id, proof_len) # "Ok" THEN CwRevert
    ELSE /\ CW_PAYMENTS' = [CW_PAYMENTS EXCEPT ![payment_id].proof_data = <<proof_len>>]
         /\ UNCHANGED <<CW_USER_PAYMENTS, PENDING_BALANCES, STATS, now, cw_balance,
                        cw_transfers>>

\* The bank messages of a settlement: native payments only (token is None).
cw_transfer_msgs(payment, kind, to_address) ==
    IF payment.token = <<>> THEN <<BankMsg(kind, to_address, payment.amount)>> ELSE <<>>

\* A slip in the settlement: the recipient's pending balance is debited twice.
CwSettleDebitingTwice(payment_id, status, completed_at, msgs) ==
    LET payment == CW_PAYMENTS[payment_id] IN
    /\ CW_PAYMENTS' = [CW_PAYMENTS EXCEPT ![payment_id].status = status,
                                          ![payment_id].completed_at = completed_at]
    /\ PENDING_BALANCES' =
           [PENDING_BALANCES EXCEPT ![payment.recipient] = @ - 2 * payment.amount]
    /\ cw_transfers' = [cw_transfers EXCEPT ![payment_id] = @ \o msgs]
    /\ cw_balance' = cw_balance - (IF msgs = <<>> THEN 0 ELSE msgs[1].amount)
    /\ UNCHANGED <<CW_USER_PAYMENTS, STATS, now>>

\* The writes shared by complete and cancel: the new status, the debit of the
\* recipient's pending balance and the messages of the response.
CwSettle(payment_id, status, completed_at, msgs) ==
    LET payment == CW_PAYMENTS[payment_id] IN
    /\ CW_PAYMENTS' = [CW_PAYMENTS EXCEPT ![payment_id].status = status,
                                          ![payment_id].completed_at = completed_at]
    /\ PENDING_BALANCES' =
           [PENDING_BALANCES EXCEPT ![payment.recipient] = @ - payment.amount]
    /\ cw_transfers' = [cw_transfers EXCEPT ![payment_id] = @ \o msgs]
    /\ cw_balance' = cw_balance - (IF msgs = <<>> THEN 0 ELSE msgs[1].amount)
    /\ UNCHANGED <<CW_USER_PAYMENTS, STATS, now>>

\* A slip in the authorization: once proof is submitted the recipient may
\* complete the payment too.
complete_payment_result_by_recipient(sender, payment_id) ==
    IF payment_id \notin DOMAIN CW_PAYMENTS THEN "PaymentNotFound"
    ELSE LET payment == CW_PAYMENTS[payment_id]
             is_sender == sender = payment.sender
             is_recipient == sender = payment.recipient
         IN IF payment.status # "Pending" THEN "PaymentNotPending"
            ELSE IF ~is_sender /\ ~is_recipient THEN "Unauthorized"
            ELSE IF payment.requires_proof /\ payment.proof_data = <<>> THEN "ProofRequired"
            ELSE IF PENDING_BALANCES[payment.recipient] < payment.amount THEN "Overflow"
            ELSE IF payment.token = <<>> /\ ~BankSendOk(cw_balance, payment.amount)
            THEN "BankError"
            ELSE "Ok"

execute_complete_payment_result(sender, payment_id) ==
    IF payment_id \notin DOMAIN CW_PAYMENTS THEN "PaymentNotFound"
    ELSE LET payment == CW_PAYMENTS[payment_id]
             is_sender == sender = payment.sender
             is_recipient == sender = payment.recipient
         IN IF payment.status # "Pending" THEN "PaymentNotPending"
            ELSE IF ~is_sender /\ ~is_recipient THEN "Unauthorized"
            ELSE IF payment.requires_proof /\ payment.proof_data = <<>> THEN "ProofRequired"
            ELSE IF payment.requires_proof /\ ~is_sender THEN "Unauthorized"
            ELSE IF PENDING_BALANCES[payment.recipient] < payment.amount THEN "Overflow"
            ELSE IF payment.token = <<>> /\ ~BankSendOk(cw_balance, payment.amount)
            THEN "BankError"
            ELSE "Ok"

execute_complete_payment(sender, payment_id) ==
    IF execute_complete_payment_result(sender, payment_id) # "Ok" THEN CwRevert
    ELSE LET payment == CW_PAYMENTS[payment_id] IN
         CwSettle(payment_id, "Completed", <<now>>,
                  cw_transfer_msgs(payment, "release", payment.recipient))

execute_dispute_payment_result(sender, payment_id, reason_len) ==
    IF payment_id \notin DOMAIN CW_PAYMENTS THEN "PaymentNotFound"
    ELSE IF CW_PAYMENTS[payment_id].status # "Pending" THEN "PaymentNotPending"
    ELSE IF /\ sender # CW_PAYMENTS[payment_id].sender
            /\ sender # CW_PAYMENTS[payment_id].recipient THEN "Unauthorized"
    ELSE IF reason_len = 0 \/ reason_len > MAX_REASON_LENGTH THEN "InvalidDisputeReason"
    ELSE "Ok"

execute_dispute_payment(sender, payment_id, reason_len) ==
    IF execute_dispute_payment_result(sender, payment_id, reason_len) # "Ok" THEN CwRevert
    ELSE /\ CW_PAYMENTS' = [CW_PAYMENTS EXCEPT ![payment_id].status = "Disputed"]
         /\ UNCHANGED <<CW_USER_PAYMENTS, PENDING_BALANCES, STATS, now, cw_balance,
                        cw_transfers>>

execute_cw_cancel_payment_result(sender, payment_id) ==
    IF payment_id \notin DOMAIN CW_PAYMENTS THEN "PaymentNotFound"
    ELSE LET payment == CW_PAYMENTS[payment_id] IN
         IF payment.status # "Pending" THEN "PaymentNotPending"
         ELSE IF sender # payment.sender THEN "Unauthorized"
         ELSE IF PENDING_BALANCES[payment.recipient] < payment.amount THEN "Overflow"
         ELSE IF payment.token = <<>> /\ ~BankSendOk(cw_balance, payment.amount)
         THEN "BankError"
         ELSE "Ok"

execute_cw_cancel_payment(sender, payment_id) ==
    IF execute_cw_cancel_payment_result(sender, payment_id) # "Ok" THEN CwRevert
    ELSE LET payment == CW_PAYMENTS[payment_id] IN
         CwSettle(payment_id, "Cancelled", payment.completed_at,
                  cw_transfer_msgs(payment, "refund", payment.sender))

\* The block time moves on between calls.
Tick ==
    /\ now < MaxTime
    /\ now' = now + 1
    /\ UNCHANGED <<CW_PAYMENTS, CW_USER_PAYMENTS, PENDING_BALANCES, STATS,
                   cw_balance, cw_transfers>>

CwNext(max_payments) ==
    \/ \E s \in CwSenders, r \in CwRecipients, a \in CwAmounts, t \in CwTokens,
          d \in DescriptionLengths, rp \in BOOLEAN : \E f \in {0, a} :
           /\ STATS.total_payments < max_payments
           /\ execute_create_payment(s, r, a, t, d, rp, f)
           /\ UNCHANGED <<socialVars, taskVars, friendVars, cwUserVars>>
    \/ \E s \in CwAddrs, id \in CwIds, p \in ProofLengths :
           execute_cw_submit_proof(s, id, p) /\ UNCHANGED <<socialVars, taskVars, friendVars, cwUserVars>>
    \/ \E s \in CwAddrs, id \in CwIds :
           execute_complete_payment(s, id) /\ UNCHANGED <<socialVars, taskVars, friendVars, cwUserVars>>
    \/ \E s \in CwAddrs, id \in CwIds, r \in ReasonLengths :
           execute_dispute_payment(s, id, r) /\ UNCHANGED <<socialVars, taskVars, friendVars, cwUserVars>>
    \/ \E s \in CwAddrs, id \in CwIds :
           execute_cw_cancel_payment(s, id) /\ UNCHANGED <<socialVars, taskVars, friendVars, cwUserVars>>
    \/ Tick /\ UNCHANGED <<socialVars, taskVars, friendVars, cwUserVars>>

\* The proofpay-cosmwasm contract with a single CreatePayment.
SpecCw == Init /\ [][CwNext(MaxCwPayments)]_vars

\* The proofpay-cosmwasm contract with two CreatePayment calls.
SpecCwWide == Init /\ [][CwNext(MaxCwPaymentsWide)]_vars

\* ------------------------------------------------------------ ibc receive
\* The packets a counterparty chain delivers: sender and recipient are the
\* packet's strings, taken as they come.
IbcSenders == {"xion1x", "osmo1b"}
IbcRecipients == {"osmo1b"}

\* format!("ibc:{}:{}:{}:{}", sender, recipient, amount, seconds)
ibc_payment_id_of(sender, recipient, amount, seconds) ==
    <<"ibc", sender, recipient, amount, seconds>>

process_received_payment_result(sender, recipient, amount) ==
    IF amount = 0 THEN "InvalidAmount" ELSE "Ok"

\* ibc_packet_receive: an error of process_received_payment becomes a failure
\* acknowledgement; it is raised before anything is written.
ibc_packet_receive(sender, recipient, amount, token) ==
    IF process_received_payment_result(sender, recipient, amount) # "Ok" THEN CwRevert
    ELSE LET payment_id == ibc_payment_id_of(sender, recipient, amount, now)
             payment == [id |-> payment_id, sender |-> sender, recipient |-> recipient,
                         amount |-> amount, token |-> token, status |-> "Completed",
                         proof_data |-> <<>>, created_at |-> now,
                         completed_at |-> <<now>>, requires_proof |-> FALSE]
         IN /\ CW_PAYMENTS' = (payment_id :> payment) @@ CW_PAYMENTS
            /\ CW_USER_PAYMENTS' =
                   [CW_USER_PAYMENTS EXCEPT ![recipient] = Append(@, payment_id)]
            /\ STATS' = [STATS EXCEPT !.total_payments = @ + 1,
                                      !.total_volume = @ + amount]
            /\ cw_transfers' = cw_transfers @@ (payment_id :> <<>>)
            /\ UNCHANGED <<PENDING_BALANCES, now, cw_balance>>

\* The proofpay-cosmwasm contract with its IBC entry point.
CwIbcNext(max_payments) ==
    \/ CwNext(max_payments)
    \/ \E s \in IbcSenders, r \in IbcRecipients, a \in CwAmounts, t \in CwTokens :
           /\ STATS.total_payments < max_payments
           /\ ibc_packet_receive(s, r, a, t)
           /\ UNCHANGED <<socialVars, taskVars, friendVars, cwUserVars>>

SpecCwIbc == Init /\ [][CwIbcNext(MaxCwPaymentsWide)]_vars

\* ------------------------------------------------------------ cw users
\* The usernames offered to the proofpay-cosmwasm RegisterUser: the empty
\* one, a short one and one of 33 bytes.
MAX_USERNAME_LENGTH == 32
CwUsernames == {<<>>, <<"a">>, [i \in 1..(MAX_USERNAME_LENGTH + 1) |-> "a"]}

execute_cw_register_user_result(sender, username) ==
    IF sender \in DOMAIN USERS THEN "UserAlreadyRegistered"
    ELSE IF Len(username) = 0 \/ Len(username) > MAX_USERNAME_LENGTH THEN "InvalidUsername"
    ELSE IF username \in DOMAIN USERNAME_TO_ADDRESS THEN "UsernameTaken"
    ELSE "Ok"

\* stats.total_users += 1
cw_register_stats(stats) == [stats EXCEPT !.total_users = @ + 1]

execute_cw_register_user(sender, username) ==
    IF execute_cw_register_user_result(sender, username) # "Ok"
    THEN UNCHANGED <<cwVars, cwUserVars>>
    ELSE /\ USERS' = (sender :> username) @@ USERS
         /\ USERNAME_TO_ADDRESS' = (username :> sender) @@ USERNAME_TO_ADDRESS
         /\ STATS' = cw_register_stats(STATS)
         /\ UNCHANGED <<CW_PAYMENTS, CW_USER_PAYMENTS, PENDING_BALANCES, now, cw_balance,
                        cw_transfers>>

\* The proofpay-cosmwasm contract with its IBC entry point and RegisterUser.
CwStatsNext ==
    \/ CwIbcNext(MaxCwPaymentsWide)
    \/ \E s \in CwSenders, n \in CwUsernames :
           /\ execute_cw_register_user(s, n)
           /\ UNCHANGED <<socialVars, taskVars, friendVars>>

SpecCwStats == Init /\ [][CwStatsNext]_vars

\* ============================================================ tasks
\* The task entry points of the social contract (CreateTask,
\* SubmitZkTlsProof, ReleaseIfWindowElapsed, DisputeTask, ResolveDispute,
\* RefundIfExpired).  The repository's sources declare the task records, the
\* task errors and the verifier, and its tests call the entry points; the
\* handlers are written here after the specification's state machine.

\* STATE.owner: the account that instantiated the contract.
Owner == "admin"
TaskCallers == Wallets \cup {Owner}
TaskIds == 1..(MaxTasks + 1)

\* Policy and review_window_secs as the tests combine them.
TaskPolicies == {<<"ZkTLS", None>>, <<"Hybrid", 1>>, <<"Hybrid", 2>>, <<"Soft", None>>}
Deadlines == {2, MaxBlockTime + 1}

\* Strings the verifier inspects, as sequences of characters.
VALID == <<"v", "a", "l", "i", "d">>
Endpoints == {<<>>, <<"/">>}
ProofBlobs == {<<>>, <<"b", "a", "d">>, VALID,
               <<"0", "1", "2", "3", "4", "5", "6", "7", "8", "9", "x">>}
ZkProofHashes == {"zk_proof_hash"}
EvidenceHashes == {"evidence_hash"}

\* str::contains
Contains(text, pattern) ==
    \E i \in 1..(Len(text) - Len(pattern) + 1) :
        SubSeq(text, i, i + Len(pattern) - 1) = pattern

\* A verifier that does not look at the endpoint.
verify_zktls_without_endpoint_check(proof_blob, endpoint) ==
    IF proof_blob = <<>> THEN "Err(InvalidProof)"
    ELSE IF Contains(proof_blob, VALID) \/ Len(proof_blob) > 10 THEN "Ok(true)"
    ELSE "Ok(false)"

verify_zktls(proof_blob, endpoint) ==
    IF proof_blob = <<>> \/ endpoint = <<>> THEN "Err(InvalidProof)"
    ELSE IF Contains(proof_blob, VALID) \/ Len(proof_blob) > 10 THEN "Ok(true)"
    ELSE "Ok(false)"

TaskStatus == {"Escrowed", "ProofSubmitted", "PendingRelease", "Released",
               "Disputed", "Refunded"}
TaskTerminal == {"Released", "Refunded"}

Task(id, payer, worker, amount, proof_type, deadline_ts, review_window_secs, endpoint) ==
    [id |-> id, payer |-> payer, worker |-> worker, amount |-> amount,
     proof_type |-> proof_type,
     status |-> IF proof_type = "Soft" THEN "ProofSubmitted" ELSE "Escrowed",
     deadline_ts |-> deadline_ts,
     review_window_secs |-> review_window_secs, endpoint |-> endpoint,
     evidence_hash |-> None, zk_proof_hash |-> None, verified_at |-> None, created_at |-> block_time,
     updated_at |-> block_time]

\* A task call that returns Err, or that returns Ok without doing anything.
TaskRevert == UNCHANGED <<socialVars, taskVars>>

\* The commit of a task call: the record, the funds and the bank messages.
TaskCommit(op, wallet, id, task, funds, msgs) ==
    /\ TASKS' = (id :> task) @@ TASKS
    /\ task_transfers' = (id :> ((IF id \in DOMAIN task_transfers
                                  THEN task_transfers[id] ELSE <<>>) \o msgs))
                         @@ task_transfers
    /\ balance' = balance + funds - (IF msgs = <<>> THEN 0 ELSE msgs[1].amount)
    /\ last' = Call(op, wallet, id, funds)
    /\ UNCHANGED <<USERS_BY_USERNAME, USERS_BY_WALLET, next_payment_id, PAYMENTS,
                   USER_PAYMENTS, attached, transfers, block_time>>

\* A Soft task takes no escrow: its payer attaches the funds when approving.
execute_create_task_result(wallet, to_username, amount, proof_type, funds) ==
    LET from_username == get_username_from_wallet(wallet) IN
    IF from_username = None THEN "UserNotRegistered"
    ELSE IF from_username = to_username THEN "CannotCreateTaskWithSelf"
    ELSE IF USERS_BY_USERNAME[to_username] = None THEN "UserNotFound"
    ELSE IF amount = 0 THEN "InvalidPaymentAmount"
    ELSE IF funds # (IF proof_type = "Soft" THEN 0 ELSE amount) THEN "InsufficientFunds"
    ELSE "Ok"

execute_create_task(wallet, to_username, amount, proof_type, deadline_ts, review_window_secs, endpoint, funds) ==
    IF execute_create_task_result(wallet, to_username, amount, proof_type, funds) # "Ok"
    THEN TaskRevert
    ELSE /\ TaskCommit("create_task", wallet, next_task_id,
                       Task(next_task_id, get_username_from_wallet(wallet), to_username,
                            amount, proof_type, deadline_ts, review_window_secs, endpoint),
                       funds, <<>>)
         /\ next_task_id' = next_task_id + 1
         /\ USER_TASKS' = USER_TASKS \cup
                {<<get_username_from_wallet(wallet), next_task_id>>,
                 <<to_username, next_task_id>>}

\* The time from which a PendingRelease task may be released.
release_after(task) == task.verified_at + task.review_window_secs

\* An accepted proof that waits for a review window under both policies.
submit_zktls_proof_awaiting_window(task, wallet, zk_proof_hash) ==
    /\ TaskCommit("submit_zktls_proof", wallet, task.id,
                  [task EXCEPT !.status = "PendingRelease",
                               !.zk_proof_hash = zk_proof_hash,
                               !.verified_at = block_time,
                               !.updated_at = block_time],
                  0, <<>>)
    /\ UNCHANGED <<next_task_id, USER_TASKS>>

\* What an accepted proof does: ZkTLS releases at once, Hybrid waits for the
\* review window.
submit_zktls_proof_accepted(task, wallet, zk_proof_hash) ==
    /\ TaskCommit("submit_zktls_proof", wallet, task.id,
                  [task EXCEPT !.status = IF task.proof_type = "Hybrid"
                                          THEN "PendingRelease" ELSE "Released",
                               !.zk_proof_hash = zk_proof_hash,
                               !.verified_at = block_time,
                               !.updated_at = block_time],
                  0,
                  IF task.proof_type = "Hybrid" THEN <<>>
                  ELSE <<BankMsg("release", USERS_BY_USERNAME[task.worker], task.amount)>>)
    /\ UNCHANGED <<next_task_id, USER_TASKS>>

execute_submit_zktls_proof_result(wallet, task_id, proof_blob) ==
    IF task_id \notin DOMAIN TASKS THEN "TaskNotFound"
    ELSE IF USERS_BY_USERNAME[TASKS[task_id].worker] # wallet THEN "TaskNotAuthorized"
    ELSE IF TASKS[task_id].proof_type = "Soft" THEN "InvalidProof"
    ELSE IF TASKS[task_id].status # "Escrowed" THEN "TaskAlreadyCompleted"
    ELSE IF verify_zktls(proof_blob, TASKS[task_id].endpoint) = "Err(InvalidProof)"
         THEN "InvalidProof"
    ELSE IF verify_zktls(proof_blob, TASKS[task_id].endpoint) = "Ok(false)"
         THEN "ZkTlsVerificationFailed"
    ELSE IF TASKS[task_id].proof_type = "ZkTLS"
            /\ ~BankSendOk(balance, TASKS[task_id].amount) THEN "BankError"
    ELSE "Ok"

execute_submit_zktls_proof(wallet, task_id, proof_blob, zk_proof_hash) ==
    IF execute_submit_zktls_proof_result(wallet, task_id, proof_blob) # "Ok"
    THEN TaskRevert
    ELSE submit_zktls_proof_accepted(TASKS[task_id], wallet, zk_proof_hash)

\* A Soft task's evidence is the worker's: its hash is stored for the payer
\* to look at.
execute_submit_soft_evidence_result(wallet, task_id) ==
    IF task_id \notin DOMAIN TASKS THEN "TaskNotFound"
    ELSE IF USERS_BY_USERNAME[TASKS[task_id].worker] # wallet THEN "TaskNotAuthorized"
    ELSE IF TASKS[task_id].proof_type # "Soft" THEN "InvalidProof"
    ELSE IF TASKS[task_id].status # "ProofSubmitted" THEN "TaskAlreadyCompleted"
    ELSE "Ok"

execute_submit_soft_evidence(wallet, task_id, evidence_hash) ==
    IF execute_submit_soft_evidence_result(wallet, task_id) # "Ok" THEN TaskRevert
    ELSE /\ TaskCommit("submit_soft_evidence", wallet, task_id,
                       [TASKS[task_id] EXCEPT !.evidence_hash = evidence_hash,
                                              !.updated_at = block_time],
                       0, <<>>)
         /\ UNCHANGED <<next_task_id, USER_TASKS>>

\* An approval that anyone may give.
approve_task_result_by_anyone(wallet, task_id, funds) ==
    IF task_id \notin DOMAIN TASKS THEN "TaskNotFound"
    ELSE IF TASKS[task_id].proof_type # "Soft" THEN "TaskNotAuthorized"
    ELSE IF TASKS[task_id].status # "ProofSubmitted" THEN "TaskAlreadyCompleted"
    ELSE IF funds # TASKS[task_id].amount THEN "InsufficientFunds"
    ELSE IF ~BankSendOk(balance + funds, TASKS[task_id].amount) THEN "BankError"
    ELSE "Ok"

\* The payer of a Soft task approves it and attaches the funds.
execute_approve_task_result(wallet, task_id, funds) ==
    IF task_id \notin DOMAIN TASKS THEN "TaskNotFound"
    ELSE IF TASKS[task_id].proof_type # "Soft" THEN "TaskNotAuthorized"
    ELSE IF USERS_BY_USERNAME[TASKS[task_id].payer] # wallet THEN "OnlyPayerCanApproveSoft"
    ELSE IF TASKS[task_id].status # "ProofSubmitted" THEN "TaskAlreadyCompleted"
    ELSE IF funds # TASKS[task_id].amount THEN "InsufficientFunds"
    ELSE IF ~BankSendOk(balance + funds, TASKS[task_id].amount) THEN "BankError"
    ELSE "Ok"

execute_approve_task(wallet, task_id, funds) ==
    IF execute_approve_task_result(wallet, task_id, funds) # "Ok" THEN TaskRevert
    ELSE /\ TaskCommit("approve_task", wallet, task_id,
                       [TASKS[task_id] EXCEPT !.status = "Released",
                                              !.updated_at = block_time],
                       funds, <<BankMsg("release", USERS_BY_USERNAME[TASKS[task_id].worker],
                                        TASKS[task_id].amount)>>)
         /\ UNCHANGED <<next_task_id, USER_TASKS>>

\* A release that does not wait for the review window.
release_if_window_elapsed_result_at_once(task_id) ==
    IF task_id \notin DOMAIN TASKS THEN "TaskNotFound"
    ELSE IF TASKS[task_id].status # "PendingRelease" THEN "TaskAlreadyCompleted"
    ELSE IF ~BankSendOk(balance, TASKS[task_id].amount) THEN "BankError"
    ELSE "Ok"

\* A release that takes a Disputed task for one awaiting release.
release_if_window_elapsed_result_while_disputed(task_id) ==
    IF task_id \notin DOMAIN TASKS THEN "TaskNotFound"
    ELSE IF TASKS[task_id].status \notin {"PendingRelease", "Disputed"}
         THEN "TaskAlreadyCompleted"
    ELSE IF block_time < release_after(TASKS[task_id]) THEN "NoOp"
    ELSE IF ~BankSendOk(balance, TASKS[task_id].amount) THEN "BankError"
    ELSE "Ok"

\* "NoOp" is a call that returns Ok and does nothing.
execute_release_if_window_elapsed_result(task_id) ==
    IF task_id \notin DOMAIN TASKS THEN "TaskNotFound"
    ELSE IF TASKS[task_id].status # "PendingRelease" THEN "TaskAlreadyCompleted"
    ELSE IF block_time < release_after(TASKS[task_id]) THEN "NoOp"
    ELSE IF ~BankSendOk(balance, TASKS[task_id].amount) THEN "BankError"
    ELSE "Ok"

execute_release_if_window_elapsed(wallet, task_id) ==
    IF execute_release_if_window_elapsed_result(task_id) # "Ok" THEN TaskRevert
    ELSE /\ TaskCommit("release_if_window_elapsed", wallet, task_id,
                       [TASKS[task_id] EXCEPT !.status = "Released",
                                              !.updated_at = block_time],
                       0, <<BankMsg("release", USERS_BY_USERNAME[TASKS[task_id].worker],
                                    TASKS[task_id].amount)>>)
         /\ UNCHANGED <<next_task_id, USER_TASKS>>

execute_dispute_task_result(wallet, task_id) ==
    IF task_id \notin DOMAIN TASKS THEN "TaskNotFound"
    ELSE IF USERS_BY_USERNAME[TASKS[task_id].payer] # wallet THEN "OnlyPayerCanDispute"
    ELSE IF TASKS[task_id].status = "Disputed" THEN "TaskAlreadyDisputed"
    ELSE IF TASKS[task_id].status # "PendingRelease" THEN "TaskAlreadyCompleted"
    ELSE IF block_time >= release_after(TASKS[task_id]) THEN "DisputeWindowElapsed"
    ELSE "Ok"

execute_dispute_task(wallet, task_id) ==
    IF execute_dispute_task_result(wallet, task_id) # "Ok" THEN TaskRevert
    ELSE /\ TaskCommit("dispute_task", wallet, task_id,
                       [TASKS[task_id] EXCEPT !.status = "Disputed",
                                              !.updated_at = block_time],
                       0, <<>>)
         /\ UNCHANGED <<next_task_id, USER_TASKS>>

execute_resolve_dispute_result(wallet, task_id) ==
    IF wallet # Owner THEN "OnlyOwnerCanResolveDispute"
    ELSE IF task_id \notin DOMAIN TASKS THEN "TaskNotFound"
    ELSE IF TASKS[task_id].status # "Disputed" THEN "TaskNotInDispute"
    ELSE IF ~BankSendOk(balance, TASKS[task_id].amount) THEN "BankError"
    ELSE "Ok"

\* decision = TRUE releases to the worker, FALSE refunds the payer.
execute_resolve_dispute(wallet, task_id, decision) ==
    IF execute_resolve_dispute_result(wallet, task_id) # "Ok" THEN TaskRevert
    ELSE LET task == TASKS[task_id] IN
         /\ TaskCommit("resolve_dispute", wallet, task_id,
                       [task EXCEPT !.status = IF decision THEN "Released" ELSE "Refunded",
                                    !.updated_at = block_time],
                       0,
                       IF decision
                       THEN <<BankMsg("release", USERS_BY_USERNAME[task.worker], task.amount)>>
                       ELSE <<BankMsg("refund", USERS_BY_USERNAME[task.payer], task.amount)>>)
         /\ UNCHANGED <<next_task_id, USER_TASKS>>

\* A refund that does not wait for the deadline.
refund_if_expired_result_at_once(task_id) ==
    IF task_id \notin DOMAIN TASKS THEN "TaskNotFound"
    ELSE IF TASKS[task_id].status \in TaskTerminal THEN "TaskAlreadyCompleted"
    ELSE IF TASKS[task_id].proof_type # "Soft"
            /\ ~BankSendOk(balance, TASKS[task_id].amount) THEN "BankError"
    ELSE "Ok"

execute_refund_if_expired_result(task_id) ==
    IF task_id \notin DOMAIN TASKS THEN "TaskNotFound"
    ELSE IF TASKS[task_id].status \in TaskTerminal THEN "TaskAlreadyCompleted"
    ELSE IF block_time < TASKS[task_id].deadline_ts THEN "NoOp"
    ELSE IF TASKS[task_id].proof_type # "Soft"
            /\ ~BankSendOk(balance, TASKS[task_id].amount) THEN "BankError"
    ELSE "Ok"

execute_refund_if_expired(wallet, task_id) ==
    IF execute_refund_if_expired_result(task_id) # "Ok" THEN TaskRevert
    ELSE /\ TaskCommit("refund_if_expired", wallet, task_id,
                       [TASKS[task_id] EXCEPT !.status = "Refunded",
                                              !.updated_at = block_time],
                       0,
                       IF TASKS[task_id].proof_type = "Soft" THEN <<>>
                       ELSE <<BankMsg("refund", USERS_BY_USERNAME[TASKS[task_id].payer],
                                      TASKS[task_id].amount)>>)
         /\ UNCHANGED <<next_task_id, USER_TASKS>>

\* The block time of the social contract's chain moves on between calls.
TaskTick ==
    /\ block_time < MaxBlockTime
    /\ block_time' = block_time + 1
    /\ UNCHANGED <<socialVars, next_task_id, TASKS, USER_TASKS, task_transfers>>

TaskNext(max_tasks) ==
    \/ \E r \in RegisterInputs :
           RegisterUser(r[1], r[2]) /\ UNCHANGED <<cwVars, taskVars, friendVars, cwUserVars>>
    \/ \E w \in Wallets, to \in Usernames, a \in Amounts, p \in TaskPolicies,
          d \in Deadlines, e \in Endpoints, f \in Funds :
           /\ next_task_id <= max_tasks
           /\ execute_create_task(w, to, a, p[1], d, p[2], e, f)
           /\ UNCHANGED <<cwVars, friendVars, cwUserVars>>
    \/ \E w \in TaskCallers, id \in TaskIds, b \in ProofBlobs, h \in ZkProofHashes :
           execute_submit_zktls_proof(w, id, b, h) /\ UNCHANGED <<cwVars, friendVars, cwUserVars>>
    \/ \E w \in TaskCallers, id \in TaskIds, h \in EvidenceHashes :
           execute_submit_soft_evidence(w, id, h) /\ UNCHANGED <<cwVars, friendVars, cwUserVars>>
    \/ \E w \in TaskCallers, id \in TaskIds, f \in Funds :
           execute_approve_task(w, id, f) /\ UNCHANGED <<cwVars, friendVars, cwUserVars>>
    \/ \E w \in TaskCallers, id \in TaskIds :
           execute_release_if_window_elapsed(w, id) /\ UNCHANGED <<cwVars, friendVars, cwUserVars>>
    \/ \E w \in TaskCallers, id \in TaskIds :
           execute_dispute_task(w, id) /\ UNCHANGED <<cwVars, friendVars, cwUserVars>>
    \/ \E w \in TaskCallers, id \in TaskIds, decision \in BOOLEAN :
           execute_resolve_dispute(w, id, decision) /\ UNCHANGED <<cwVars, friendVars, cwUserVars>>
    \/ \E w \in TaskCallers, id \in TaskIds :
           execute_refund_if_expired(w, id) /\ UNCHANGED <<cwVars, friendVars, cwUserVars>>
    \/ TaskTick /\ UNCHANGED <<cwVars, friendVars, cwUserVars>>

\* The task system of the social contract with a single task.
SpecTask == Init /\ [][TaskNext(MaxTasks)]_vars

\* ============================================================ user registry
\* The usernames offered to RegisterUser: the fixture's, one that differs from
\* "alice" only in case, and one that is too short.
RegistryUsernames == Usernames \cup {"ALICE", "ab"}

InitUsers ==
    /\ USERS_BY_USERNAME = [n \in RegistryUsernames |-> None]
    /\ USERS_BY_WALLET = [w \in Wallets |-> None]
    /\ next_payment_id = 1
    /\ PAYMENTS = <<>>
    /\ USER_PAYMENTS = {}
    /\ balance = 0
    /\ attached = <<>>
    /\ transfers = <<>>
    /\ last = Call("instantiate", None, 0, 0)
    /\ InitCw /\ InitTask /\ InitFriends /\ InitCwUsers

execute_update_user_profile_result(wallet) ==
    IF get_username_from_wallet(wallet) = None THEN "UserNotRegistered"
    ELSE IF USERS_BY_USERNAME[get_username_from_wallet(wallet)] = None THEN "UserNotFound"
    ELSE "Ok"

\* A slip in the update closure: the user's record is not written back.
update_user_profile_dropping_user(wallet, user) == None

\* The User written back by the update closure: display_name, profile_picture
\* and updated_at change, wallet_address does not.
update_user_profile(wallet, user) == user

execute_update_user_profile(wallet) ==
    IF execute_update_user_profile_result(wallet) # "Ok" THEN Revert
    ELSE /\ USERS_BY_USERNAME' =
                [USERS_BY_USERNAME EXCEPT ![get_username_from_wallet(wallet)] =
                     update_user_profile(wallet, @)]
         /\ last' = Call("update_user_profile", wallet, 0, 0)
         /\ UNCHANGED <<USERS_BY_WALLET, next_payment_id, PAYMENTS, USER_PAYMENTS,
                        balance, attached, transfers>>

\* USERS_BY_USERNAME.load: None stands for the load error.
query_user_by_username(username) == USERS_BY_USERNAME[username]

query_username_available(username) == USERS_BY_USERNAME[username] = None

UsersNext ==
    \/ \E w \in Wallets, n \in RegistryUsernames :
           RegisterUser(w, n) /\ UNCHANGED <<cwVars, taskVars, friendVars, cwUserVars>>
    \/ \E w \in Wallets :
           execute_update_user_profile(w) /\ UNCHANGED <<cwVars, taskVars, friendVars, cwUserVars>>

\* The user registry of the social contract.
SpecUsers == InitUsers /\ [][UsersNext]_vars

\* ============================================================ friends
FriendRequestStatus == {"Pending", "Accepted", "Declined"}

FriendRevert == UNCHANGED <<socialVars, friendVars>>

\* A friends call that returned Ok: only the friends maps change.
FriendCommit(op, wallet) ==
    /\ last' = Call(op, wallet, 0, 0)
    /\ UNCHANGED <<USERS_BY_USERNAME, USERS_BY_WALLET, next_payment_id, PAYMENTS,
                   USER_PAYMENTS, balance, attached, transfers>>

execute_send_friend_request_result(wallet, to_username) ==
    LET from_username == get_username_from_wallet(wallet) IN
    IF from_username = None THEN "UserNotRegistered"
    ELSE IF from_username = to_username THEN "CannotAddSelf"
    ELSE IF USERS_BY_USERNAME[to_username] = None THEN "UserNotFound"
    ELSE IF \/ <<from_username, to_username>> \in FRIENDSHIPS
            \/ <<to_username, from_username>> \in FRIENDSHIPS THEN "AlreadyFriends"
    ELSE IF <<from_username, to_username>> \in DOMAIN FRIEND_REQUESTS
    THEN "FriendRequestAlreadyExists"
    ELSE "Ok"

execute_send_friend_request(wallet, to_username) ==
    IF execute_send_friend_request_result(wallet, to_username) # "Ok" THEN FriendRevert
    ELSE LET request_key == <<get_username_from_wallet(wallet), to_username>> IN
         /\ FRIEND_REQUESTS' = (request_key :> "Pending") @@ FRIEND_REQUESTS
         /\ UNCHANGED FRIENDSHIPS
         /\ FriendCommit("send_friend_request", wallet)

execute_accept_friend_request_result(wallet, from_username) ==
    LET to_username == get_username_from_wallet(wallet) IN
    IF to_username = None THEN "UserNotRegistered"
    ELSE IF <<from_username, to_username>> \notin DOMAIN FRIEND_REQUESTS
    THEN "FriendRequestNotFound"
    ELSE "Ok"

\* A slip in the accept handler: the friendship is saved in one direction.
accepted_friendships_one_way(from_username, to_username) ==
    {<<from_username, to_username>>}

\* The two FRIENDSHIPS.save calls of the accept handler.
accepted_friendships(from_username, to_username) ==
    {<<from_username, to_username>>, <<to_username, from_username>>}

execute_accept_friend_request(wallet, from_username) ==
    IF execute_accept_friend_request_result(wallet, from_username) # "Ok" THEN FriendRevert
    ELSE LET to_username == get_username_from_wallet(wallet) IN
         /\ FRIEND_REQUESTS' =
                [FRIEND_REQUESTS EXCEPT ![<<from_username, to_username>>] = "Accepted"]
         /\ FRIENDSHIPS' = FRIENDSHIPS \cup accepted_friendships(from_username, to_username)
         /\ FriendCommit("accept_friend_request", wallet)

execute_decline_friend_request_result(wallet, from_username) ==
    LET to_username == get_username_from_wallet(wallet) IN
    IF to_username = None THEN "UserNotRegistered"
    ELSE IF <<from_username, to_username>> \notin DOMAIN FRIEND_REQUESTS
    THEN "FriendRequestNotFound"
    ELSE "Ok"

execute_decline_friend_request(wallet, from_username) ==
    IF execute_decline_friend_request_result(wallet, from_username) # "Ok" THEN FriendRevert
    ELSE LET to_username == get_username_from_wallet(wallet) IN
         /\ FRIEND_REQUESTS' =
                [FRIEND_REQUESTS EXCEPT ![<<from_username, to_username>>] = "Declined"]
         /\ UNCHANGED FRIENDSHIPS
         /\ FriendCommit("decline_friend_request", wallet)

execute_remove_friend_result(wallet, friend_username) ==
    LET username == get_username_from_wallet(wallet) IN
    IF username = None THEN "UserNotRegistered"
    ELSE IF <<username, friend_username>> \notin FRIENDSHIPS THEN "NotFriends"
    ELSE "Ok"

execute_remove_friend(wallet, friend_username) ==
    IF execute_remove_friend_result(wallet, friend_username) # "Ok" THEN FriendRevert
    ELSE LET username == get_username_from_wallet(wallet) IN
         /\ FRIENDSHIPS' = FRIENDSHIPS \ {<<username, friend_username>>,
                                           <<friend_username, username>>}
         /\ UNCHANGED FRIEND_REQUESTS
         /\ FriendCommit("remove_friend", wallet)

FriendsNext ==
    \/ \E r \in RegisterInputs :
           RegisterUser(r[1], r[2]) /\ UNCHANGED <<cwVars, taskVars, friendVars, cwUserVars>>
    \/ \E w \in Wallets, n \in Usernames :
           execute_send_friend_request(w, n) /\ UNCHANGED <<cwVars, taskVars, cwUserVars>>
    \/ \E w \in Wallets, n \in Usernames :
           execute_accept_friend_request(w, n) /\ UNCHANGED <<cwVars, taskVars, cwUserVars>>
    \/ \E w \in Wallets, n \in Usernames :
           execute_decline_friend_request(w, n) /\ UNCHANGED <<cwVars, taskVars, cwUserVars>>
    \/ \E w \in Wallets, n \in Usernames :
           execute_remove_friend(w, n) /\ UNCHANGED <<cwVars, taskVars, cwUserVars>>

\* The friends system of the social contract.
SpecFriends == Init /\ [][FriendsNext]_vars

\* The two contracts are separate deployments with disjoint storage: a
\* behaviour of SpecEither exercises one of them and leaves the other as
\* instantiated.
NextEither ==
    \/ InitCw /\ Next(MaxPayments)
    \/ InitSocial /\ CwNext(MaxCwPayments)

SpecEither == Init /\ [][NextEither]_vars

\* ============================================================ claims
Terminal == {"Completed", "Cancelled", "Rejected"}

RECURSIVE SumAmounts(_)
SumAmounts(msgs) ==
    IF msgs = <<>> THEN 0 ELSE msgs[1].amount + SumAmounts(Tail(msgs))

\* Funds the contract holds for a payment: attached at creation minus sent out.
Held(id) == attached[id] - SumAmounts(transfers[id])

\* Records whose creation takes escrow.
TakesEscrow(payment) ==
    \/ payment.payment_type = "HelpRequest"
    \/ payment.payment_type = "DirectPayment" /\ payment.proof_type # "None"

\* The approver the claims designate for a record.
DesignatedApprover(payment) ==
    IF payment.payment_type = "PaymentRequest"
    THEN payment.to_username ELSE payment.from_username

LastTransfer(id) == transfers[id][Len(transfers[id])]

\* C1: at most one bank transfer (one release or one refund) is ever issued
\* for a payment record of the social contract.
C1_AtMostOneTransfer ==
    \A id \in DOMAIN transfers : Len(transfers[id]) <= 1

\* C2: for a record whose creation takes escrow, the funds held for it equal
\* the declared amount while it is Pending or ProofSubmitted and 0 once it is
\* Completed, Cancelled or Rejected.
C2_EscrowHeldMatchesStatus ==
    \A id \in DOMAIN PAYMENTS :
        TakesEscrow(PAYMENTS[id]) =>
            /\ PAYMENTS[id].status \in {"Pending", "ProofSubmitted"}
                   => Held(id) = PAYMENTS[id].amount
            /\ PAYMENTS[id].status \in Terminal => Held(id) = 0

\* C3: the account paid by a successful ApprovePayment on a record that
\* requires proof is never the account that called ApprovePayment.
C3_NoSelfRelease ==
    (last.op = "approve_payment" /\ PAYMENTS[last.id].proof_type # "None")
        => LastTransfer(last.id).to_address # last.sender

\* C4: once a payment is Completed, Cancelled or Rejected, no call changes
\* its status.
C4_TerminalStatusStays ==
    [][\A id \in DOMAIN PAYMENTS :
           PAYMENTS[id].status \in Terminal
               => PAYMENTS'[id].status = PAYMENTS[id].status]_vars

\* C7: an ApprovePayment on a PaymentRequest (no funds escrowed at creation)
\* succeeds only if the approver attached at least the declared amount.
C7_ApproveRequestNeedsFunds ==
    (last.op = "approve_payment"
        /\ PAYMENTS[last.id].payment_type = "PaymentRequest")
        => last.funds >= PAYMENTS[last.id].amount

\* C8: approving a PaymentRequest with proof submitted and the amount
\* attached completes it and transfers exactly the amount to the requester
\* (from_username).
C8_RequestPaysRequester ==
    (last.op = "approve_payment"
        /\ PAYMENTS[last.id].payment_type = "PaymentRequest"
        /\ PAYMENTS[last.id].proof_data # None
        /\ last.funds >= PAYMENTS[last.id].amount)
        => /\ PAYMENTS[last.id].status = "Completed"
           /\ LastTransfer(last.id) =
                  BankMsg("release",
                          USERS_BY_USERNAME[PAYMENTS[last.id].from_username],
                          PAYMENTS[last.id].amount)

\* C9: ApprovePayment and RejectPayment succeed only for the designated
\* approver (from_username for DirectPayment and HelpRequest, to_username for
\* PaymentRequest); any other registered account gets PaymentNotAuthorized,
\* and a call that returns an error is rolled back whole.
C9_OnlyApproverDecides ==
    /\ \A w \in Wallets, id \in DOMAIN PAYMENTS :
           (USERS_BY_WALLET[w] # None
               /\ USERS_BY_WALLET[w] # DesignatedApprover(PAYMENTS[id]))
               => /\ \A f \in Funds :
                         execute_approve_payment_result(w, id, f) = "PaymentNotAuthorized"
                  /\ execute_reject_payment_result(w, id) = "PaymentNotAuthorized"
    /\ last.op \in {"approve_payment", "reject_payment"}
           => USERS_BY_WALLET[last.sender] = DesignatedApprover(PAYMENTS[last.id])

\* C9 witness: a payment has been approved while a registered account that
\* takes no part in it is refused.
C9_Witness ==
    /\ last.op = "approve_payment"
    /\ \E w \in Wallets :
           /\ USERS_BY_WALLET[w] # None
           /\ USERS_BY_WALLET[w] \notin {PAYMENTS[last.id].from_username,
                                         PAYMENTS[last.id].to_username}
           /\ execute_reject_payment_result(w, last.id) = "PaymentNotAuthorized"

\* C10: a DirectPayment with proof type None is stored Completed with exactly
\* one transfer, of the declared amount to the recipient's wallet, issued by
\* the creating call; no later call adds a transfer for it.
C10_DirectNoProofPaysOnce ==
    \A id \in DOMAIN PAYMENTS :
        (PAYMENTS[id].payment_type = "DirectPayment" /\ PAYMENTS[id].proof_type = "None")
            => /\ PAYMENTS[id].status = "Completed"
               /\ transfers[id] =
                      <<BankMsg("release", USERS_BY_USERNAME[PAYMENTS[id].to_username],
                                PAYMENTS[id].amount)>>
               /\ \A w \in Wallets, f \in Funds :
                      /\ execute_approve_payment_result(w, id, f) # "Ok"
                      /\ execute_cancel_payment_result(w, id) # "Ok"
                      /\ execute_reject_payment_result(w, id) # "Ok"

\* C10 witness: a DirectPayment with proof type None has been sent.
C10_Witness ==
    /\ last.op = "send_direct_payment"
    /\ PAYMENTS[last.id].proof_type = "None"
    /\ Len(transfers[last.id]) = 1

\* Sum of the amounts of the stored payments in ids.
RECURSIVE SumPayments(_)
SumPayments(ids) ==
    IF ids = {} THEN 0
    ELSE LET id == CHOOSE x \in ids : TRUE
         IN CW_PAYMENTS[id].amount + SumPayments(ids \ {id})

InFlight(recipient) ==
    {id \in DOMAIN CW_PAYMENTS :
        /\ CW_PAYMENTS[id].recipient = recipient
        /\ CW_PAYMENTS[id].status \in {"Pending", "Disputed"}}

\* C5: PENDING_BALANCES[recipient] equals the sum of the amounts of the stored
\* payments addressed to the recipient that are Pending or Disputed.
C5_PendingBalanceReconciles ==
    \A r \in CwAddrs : PENDING_BALANCES[r] = SumPayments(InFlight(r))

\* C6: at most one bank transfer (one release or one refund) is ever issued
\* under a payment id of the proofpay-cosmwasm contract.
C6_AtMostOneTransferPerId ==
    \A id \in DOMAIN cw_transfers : Len(cw_transfers[id]) <= 1

\* The wallet of the payer (from_username) and of the payee (to_username).
PayerWallet(payment) == USERS_BY_USERNAME[payment.from_username]
PayeeWallet(payment) == USERS_BY_USERNAME[payment.to_username]

\* C11: for an escrowed record with a proof type other than None and a
\* positive declared amount, created by payer A for payee B: before B has submitted proof, ApprovePayment by A
\* fails with ProofRequired; once B has submitted proof, ApprovePayment by A
\* succeeds; and a Completed record has exactly one transfer, of the declared
\* amount, to B.
C11_ManualEscrowLifecycle ==
    \A id \in DOMAIN PAYMENTS :
        (/\ TakesEscrow(PAYMENTS[id])
         /\ PAYMENTS[id].proof_type # "None"
         /\ PAYMENTS[id].amount > 0)
            => /\ PAYMENTS[id].status = "Pending"
                   => \A f \in Funds :
                          execute_approve_payment_result(PayerWallet(PAYMENTS[id]), id, f)
                              = "ProofRequired"
               /\ PAYMENTS[id].status = "ProofSubmitted"
                   => \A f \in Funds :
                          execute_approve_payment_result(PayerWallet(PAYMENTS[id]), id, f)
                              = "Ok"
               /\ PAYMENTS[id].status = "Completed"
                   => transfers[id] =
                          <<BankMsg("release", PayeeWallet(PAYMENTS[id]), PAYMENTS[id].amount)>>

\* C12: after the approver rejects a record whose proof was submitted, the
\* payee's next SubmitProof on that record succeeds, and the rejection issues
\* no transfer.
C12_RejectedIsResubmittable ==
    (last.op = "reject_payment" /\ PAYMENTS[last.id].proof_data # None)
        => /\ execute_submit_proof_result(PayeeWallet(PAYMENTS[last.id]), last.id) = "Ok"
           /\ transfers[last.id] = <<>>

\* C13: CancelPayment succeeds only for the payer and only while the record
\* is Pending or ProofSubmitted; a successful cancel leaves the status
\* Cancelled and, on a record for which funds were escrowed at creation,
\* issues in the same call a refund of exactly the declared amount to the payer.
C13_CancelRefundsEscrow ==
    [][\A w \in Wallets, id \in DOMAIN PAYMENTS :
           (execute_cancel_payment_result(w, id) = "Ok" /\ execute_cancel_payment(w, id))
               => /\ w = PayerWallet(PAYMENTS[id])
                  /\ PAYMENTS[id].status \in {"Pending", "ProofSubmitted"}
                  /\ PAYMENTS'[id].status = "Cancelled"
                  /\ TakesEscrow(PAYMENTS[id])
                         => transfers'[id] = transfers[id] \o
                                <<BankMsg("refund", w, PAYMENTS[id].amount)>>]_vars

\* The conditions under which SubmitProof is permitted.
MaySubmit(wallet, payment_id) ==
    /\ payment_id \in DOMAIN PAYMENTS
    /\ wallet = PayeeWallet(PAYMENTS[payment_id])
    /\ PAYMENTS[payment_id].proof_type # "None"
    /\ PAYMENTS[payment_id].status = "Pending"

CwMaySubmit(sender, payment_id) ==
    /\ payment_id \in DOMAIN CW_PAYMENTS
    /\ sender = CW_PAYMENTS[payment_id].recipient
    /\ CW_PAYMENTS[payment_id].requires_proof
    /\ CW_PAYMENTS[payment_id].status = "Pending"

CallPermitted(id) ==
    \E w \in Wallets, f \in Funds :
        \/ execute_submit_proof_result(w, id) = "Ok"
        \/ execute_approve_payment_result(w, id, f) = "Ok"
        \/ execute_reject_payment_result(w, id) = "Ok"
        \/ execute_cancel_payment_result(w, id) = "Ok"

CwCallPermitted(id) ==
    \E s \in CwAddrs, p \in ProofLengths, r \in ReasonLengths :
        \/ execute_cw_submit_proof_result(s, id, p) = "Ok"
        \/ execute_complete_payment_result(s, id) = "Ok"
        \/ execute_dispute_payment_result(s, id, r) = "Ok"
        \/ execute_cw_cancel_payment_result(s, id) = "Ok"

\* C15: funds are never permanently stuck.  From a state in which the contract
\* holds funds for a record (or the record is not Completed or Cancelled in
\* the proofpay-cosmwasm contract) a sequence of permitted calls settles it;
\* so in every such state at least one call on the record is permitted.
C15_FundsNeverStuck ==
    /\ \A id \in DOMAIN PAYMENTS : Held(id) > 0 => CallPermitted(id)
    /\ \A id \in DOMAIN CW_PAYMENTS :
           CW_PAYMENTS[id].status \notin {"Completed", "Cancelled"} => CwCallPermitted(id)

ReplayResult ==
    CASE last.op = "submit_proof" -> execute_submit_proof_result(last.sender, last.id)
      [] last.op = "approve_payment" ->
             execute_approve_payment_result(last.sender, last.id, last.funds)
      [] last.op = "reject_payment" -> execute_reject_payment_result(last.sender, last.id)
      [] last.op = "cancel_payment" -> execute_cancel_payment_result(last.sender, last.id)
      [] OTHER -> "NotReplayed"

\* C17: immediately repeating a SubmitProof, ApprovePayment, RejectPayment or
\* CancelPayment that just succeeded (same caller, same payment id) returns
\* an error.
C17_ReplayIsRejected == ReplayResult # "Ok"

CreateOps == {"send_direct_payment", "create_payment_request", "create_help_request"}

\* C18: payment ids are unique and assigned in order: the stored ids are
\* exactly 1 .. next_payment_id - 1, each record is stored under its own id,
\* and the counter moves only by one, in a successful create that stores the
\* new record under the previous value of the counter and keeps the others.
C18_IdsAssignedInOrder ==
    /\ [](/\ next_payment_id >= 1
          /\ DOMAIN PAYMENTS = 1..(next_payment_id - 1)
          /\ \A id \in DOMAIN PAYMENTS : PAYMENTS[id].id = id)
    /\ [][\/ /\ next_payment_id' = next_payment_id
             /\ DOMAIN PAYMENTS' = DOMAIN PAYMENTS
          \/ /\ next_payment_id' = next_payment_id + 1
             /\ last'.op \in CreateOps
             /\ last'.id = next_payment_id
             /\ DOMAIN PAYMENTS' = DOMAIN PAYMENTS \cup {next_payment_id}
             /\ \A id \in DOMAIN PAYMENTS : PAYMENTS'[id] = PAYMENTS[id]]_vars

\* C18 witness: a second payment has been created and got id 2.
C18_Witness ==
    /\ last.op \in CreateOps
    /\ last.id = 2
    /\ next_payment_id = 3
    /\ DOMAIN PAYMENTS = {1, 2}

\* C19: two successful CreatePayment calls never yield the same payment id: a
\* successful CreatePayment (the only call that counts a payment in STATS)
\* stores its record under an id that held no record before.
C19_CreateNeverOverwrites ==
    [][STATS'.total_payments # STATS.total_payments
           => /\ DOMAIN CW_PAYMENTS \subseteq DOMAIN CW_PAYMENTS'
              /\ Cardinality(DOMAIN CW_PAYMENTS') = Cardinality(DOMAIN CW_PAYMENTS) + 1]_vars

\* C20: in both contracts a stored record is never deleted and its identity,
\* payer, payee, amount, payment type and proof policy never change.
C20_RecordIdentityIsFrozen ==
    [][/\ \A id \in DOMAIN PAYMENTS :
              /\ id \in DOMAIN PAYMENTS'
              /\ PAYMENTS'[id].id = PAYMENTS[id].id
              /\ PAYMENTS'[id].from_username = PAYMENTS[id].from_username
              /\ PAYMENTS'[id].to_username = PAYMENTS[id].to_username
              /\ PAYMENTS'[id].amount = PAYMENTS[id].amount
              /\ PAYMENTS'[id].payment_type = PAYMENTS[id].payment_type
              /\ PAYMENTS'[id].proof_type = PAYMENTS[id].proof_type
       /\ \A id \in DOMAIN CW_PAYMENTS :
              /\ id \in DOMAIN CW_PAYMENTS'
              /\ CW_PAYMENTS'[id].id = CW_PAYMENTS[id].id
              /\ CW_PAYMENTS'[id].sender = CW_PAYMENTS[id].sender
              /\ CW_PAYMENTS'[id].recipient = CW_PAYMENTS[id].recipient
              /\ CW_PAYMENTS'[id].amount = CW_PAYMENTS[id].amount
              /\ CW_PAYMENTS'[id].requires_proof = CW_PAYMENTS[id].requires_proof]_vars

\* The ids of the stored payments a user takes part in.
Participates(username) ==
    {id \in DOMAIN PAYMENTS :
        username \in {PAYMENTS[id].from_username, PAYMENTS[id].to_username}}

PaymentsOf(ids) == [i \in 1..Len(ids) |-> PAYMENTS[ids[i]]]

\* C21: USER_PAYMENTS holds (u, id) exactly when u is the from_username or
\* to_username of stored payment id; GetPaymentHistory(u) returns exactly the
\* payments u takes part in, in ascending id order, and GetPendingPayments(u)
\* exactly those of them that are Pending or ProofSubmitted.
C21_IndexedUnderBothParticipants ==
    /\ USER_PAYMENTS = {<<u, id>> \in Usernames \X DOMAIN PAYMENTS : id \in Participates(u)}
    /\ \A u \in Usernames :
           /\ query_payment_history(u) = PaymentsOf(Ascending(Participates(u)))
           /\ query_pending_payments(u) =
                  PaymentsOf(Ascending({id \in Participates(u) :
                                           IsPendingPayment(PAYMENTS[id])}))
           /\ \A i, j \in 1..Len(query_payment_history(u)) :
                  i < j => query_payment_history(u)[i].id < query_payment_history(u)[j].id

\* C21 witness: a user takes part in two payments, one of them settled.
C21_Witness ==
    \E u \in Usernames :
        /\ Len(query_payment_history(u)) = 2
        /\ Len(query_pending_payments(u)) = 1
        /\ last.op \in CreateOps

\* C22: every create operation of both contracts rejects a record whose payer
\* equals its payee, so every stored record has payer different from payee.
C22_PayerIsNotPayee ==
    /\ \A id \in DOMAIN PAYMENTS : PAYMENTS[id].from_username # PAYMENTS[id].to_username
    /\ \A id \in DOMAIN CW_PAYMENTS : CW_PAYMENTS[id].sender # CW_PAYMENTS[id].recipient

\* The part of C22 that the execute entry points of both contracts decide.
PayerIsNotPayeeOfExecuteCreates ==
    /\ \A id \in DOMAIN PAYMENTS : PAYMENTS[id].from_username # PAYMENTS[id].to_username
    /\ \A id \in DOMAIN CW_PAYMENTS :
           Len(id) = 4 => CW_PAYMENTS[id].sender # CW_PAYMENTS[id].recipient

\* C23: every record-creating operation of both contracts rejects a zero
\* amount, so no stored record has amount 0.
C23_NoZeroAmountRecord ==
    /\ \A id \in DOMAIN PAYMENTS : PAYMENTS[id].amount # 0
    /\ \A id \in DOMAIN CW_PAYMENTS : CW_PAYMENTS[id].amount # 0

\* The part of C23 that direct payments and the proofpay-cosmwasm contract decide.
NoZeroAmountWhereChecked ==
    /\ \A id \in DOMAIN PAYMENTS :
           PAYMENTS[id].payment_type = "DirectPayment" => PAYMENTS[id].amount # 0
    /\ \A id \in DOMAIN CW_PAYMENTS : CW_PAYMENTS[id].amount # 0

\* Funds a caller may attach to a create: less than, equal to and more than
\* the declared amounts.
FundsOffered == 0..2

\* C24: in the social contract SendDirectPayment and CreateHelpRequest are
\* rejected whenever the attached funds differ from the declared amount, less
\* or more, so a successful create holds exactly the declared amount.
C24_EscrowedCreateNeedsExactFunds ==
    /\ \A w \in Wallets, to \in Usernames, a \in Amounts \ {0},
          pt \in ProofTypes, f \in FundsOffered :
           f # a =>
               /\ execute_send_direct_payment_result(w, to, a, pt, f) # "Ok"
               /\ execute_create_help_request_result(w, to, a, pt, f) # "Ok"
    /\ \A id \in DOMAIN PAYMENTS :
           PAYMENTS[id].payment_type \in {"DirectPayment", "HelpRequest"}
               => attached[id] = PAYMENTS[id].amount

\* The half of C24 the code enforces: too few funds are refused.
TooFewFundsRefused ==
    \A w \in Wallets, to \in Usernames, a \in Amounts \ {0},
       pt \in ProofTypes, f \in FundsOffered :
        f < a =>
            /\ execute_send_direct_payment_result(w, to, a, pt, f) # "Ok"
            /\ execute_create_help_request_result(w, to, a, pt, f) # "Ok"

\* The wallets of a task's payer and worker.
TaskPayerWallet(task) == USERS_BY_USERNAME[task.payer]
TaskWorkerWallet(task) == USERS_BY_USERNAME[task.worker]

\* C25: for a Hybrid task a successful proof submission leaves the task in
\* PendingRelease without paying the worker; ReleaseIfWindowElapsed while
\* now < verified time + window changes nothing; from that time on one call
\* moves the task to Released and pays the worker the amount, and calls on
\* the Released task issue no transfer.
C25_HybridReleaseAfterWindow ==
    [][\A w \in TaskCallers, id \in DOMAIN TASKS :
          /\ \A b \in ProofBlobs, h \in ZkProofHashes :
                 (/\ TASKS[id].proof_type = "Hybrid"
                  /\ execute_submit_zktls_proof_result(w, id, b) = "Ok"
                  /\ execute_submit_zktls_proof(w, id, b, h))
                     => /\ TASKS'[id].status = "PendingRelease"
                        /\ TASKS'[id].verified_at = block_time
                        /\ task_transfers'[id] = <<>>
                        /\ balance' = balance
          /\ (TASKS[id].status = "PendingRelease" /\ execute_release_if_window_elapsed(w, id))
                 => IF block_time < TASKS[id].verified_at + TASKS[id].review_window_secs
                    THEN UNCHANGED <<socialVars, taskVars>>
                    ELSE /\ TASKS'[id].status = "Released"
                         /\ task_transfers'[id] =
                                <<BankMsg("release", TaskWorkerWallet(TASKS[id]), TASKS[id].amount)>>
                         /\ balance' = balance - TASKS[id].amount
          /\ (TASKS[id].status = "Released" /\ execute_release_if_window_elapsed(w, id))
                 => UNCHANGED <<socialVars, taskVars>>
      ]_vars

C25_Witness ==
    /\ last.op = "release_if_window_elapsed"
    /\ TASKS[last.id].proof_type = "Hybrid"
    /\ TASKS[last.id].status = "Released"
    /\ block_time >= TASKS[last.id].verified_at + TASKS[last.id].review_window_secs
    /\ Len(task_transfers[last.id]) = 1

\* The payer's dispute of a PendingRelease task before the window elapses
\* moves it to Disputed.
PayerDisputeMovesToDisputed(id) ==
    \A w \in TaskCallers :
        (/\ TASKS[id].status = "PendingRelease"
         /\ w = TaskPayerWallet(TASKS[id])
         /\ block_time < TASKS[id].verified_at + TASKS[id].review_window_secs
         /\ execute_dispute_task(w, id))
            => TASKS'[id].status = "Disputed"

\* No ReleaseIfWindowElapsed call does anything to a Disputed task.
DisputeBlocksRelease(id) ==
    \A w \in TaskCallers :
        (TASKS[id].status = "Disputed" /\ execute_release_if_window_elapsed(w, id))
            => UNCHANGED <<socialVars, taskVars>>

\* The step leaves the Disputed state of the task or moves its funds.
EndsDispute(id) ==
    /\ TASKS[id].status = "Disputed"
    /\ TASKS'[id].status # "Disputed" \/ task_transfers'[id] # task_transfers[id]

ResolveDisputeStep(id) ==
    \E w \in TaskCallers, decision \in BOOLEAN :
        execute_resolve_dispute_result(w, id) = "Ok" /\ execute_resolve_dispute(w, id, decision)

RefundIfExpiredStep(id) ==
    /\ block_time >= TASKS[id].deadline_ts
    /\ \E w \in TaskCallers :
           execute_refund_if_expired_result(id) = "Ok" /\ execute_refund_if_expired(w, id)

\* C26: a dispute raised by the payer on a PendingRelease task before the
\* window elapses moves it to Disputed; while it is Disputed no
\* ReleaseIfWindowElapsed call releases the funds, and only ResolveDispute
\* ends the Disputed state.
C26_OnlyResolveDisputeEndsDispute ==
    [][\A id \in DOMAIN TASKS :
          /\ PayerDisputeMovesToDisputed(id)
          /\ DisputeBlocksRelease(id)
          /\ EndsDispute(id) => ResolveDisputeStep(id)
      ]_vars

\* C26 as it holds: the Disputed state is ended by ResolveDispute or, from the
\* deadline on, by RefundIfExpired, and never by ReleaseIfWindowElapsed.
C26_DisputeBlocksReleaseUntilResolvedOrExpired ==
    [][\A id \in DOMAIN TASKS :
          /\ PayerDisputeMovesToDisputed(id)
          /\ DisputeBlocksRelease(id)
          /\ EndsDispute(id) => ResolveDisputeStep(id) \/ RefundIfExpiredStep(id)
      ]_vars

C26_Witness ==
    /\ last.op = "dispute_task"
    /\ TASKS[last.id].status = "Disputed"
    /\ last.sender = TaskPayerWallet(TASKS[last.id])
    /\ block_time >= TASKS[last.id].verified_at + TASKS[last.id].review_window_secs

\* C27: ResolveDispute is accepted only from the arbiter and only on a
\* Disputed record, and every Disputed record, of the task system and of the
\* proofpay-cosmwasm contract, can be resolved: some call on it is accepted.
C27_DisputedIsResolvedByArbiter ==
    /\ \A id \in DOMAIN TASKS, w \in TaskCallers :
           execute_resolve_dispute_result(w, id) = "Ok"
               <=> (w = Owner /\ TASKS[id].status = "Disputed")
    /\ \A id \in DOMAIN CW_PAYMENTS :
           CW_PAYMENTS[id].status = "Disputed" => CwCallPermitted(id)

\* The two decisions of ResolveDispute on a Disputed task: the full amount
\* goes to the worker (Released) or to the payer (Refunded).
TaskDisputeResolution ==
    [][\A id \in DOMAIN TASKS, decision \in BOOLEAN :
          (TASKS[id].status = "Disputed" /\ execute_resolve_dispute(Owner, id, decision))
              => /\ TASKS'[id].status = IF decision THEN "Released" ELSE "Refunded"
                 /\ task_transfers'[id] =
                        <<IF decision
                          THEN BankMsg("release", TaskWorkerWallet(TASKS[id]), TASKS[id].amount)
                          ELSE BankMsg("refund", TaskPayerWallet(TASKS[id]), TASKS[id].amount)>>
                 /\ balance' = balance - TASKS[id].amount
      ]_vars

\* C28: for a ZkTLS task in escrow, a proof submission by the worker that the
\* verifier accepts leaves the task Released and sends exactly the task's
\* amount to the worker in that same call.
C28_ZkTlsAcceptedProofReleasesAtOnce ==
    [][\A id \in DOMAIN TASKS, b \in ProofBlobs, h \in ZkProofHashes :
          (/\ TASKS[id].proof_type = "ZkTLS"
           /\ TASKS[id].status = "Escrowed"
           /\ verify_zktls(b, TASKS[id].endpoint) = "Ok(true)"
           /\ execute_submit_zktls_proof(TaskWorkerWallet(TASKS[id]), id, b, h))
              => /\ TASKS'[id].status = "Released"
                 /\ task_transfers'[id] =
                        <<BankMsg("release", TaskWorkerWallet(TASKS[id]), TASKS[id].amount)>>
                 /\ balance' = balance - TASKS[id].amount
      ]_vars

C28_Witness ==
    /\ last.op = "submit_zktls_proof"
    /\ TASKS[last.id].proof_type = "ZkTLS"
    /\ TASKS[last.id].status = "Released"
    /\ last.sender = TaskWorkerWallet(TASKS[last.id])
    /\ task_transfers[last.id] =
           <<BankMsg("release", last.sender, TASKS[last.id].amount)>>

\* What the verifier rejects: an empty proof or endpoint is an error, and a
\* short proof without the marker is not valid.
VerifierRejects ==
    /\ \A b \in ProofBlobs, e \in Endpoints :
           (b = <<>> \/ e = <<>>) => verify_zktls(b, e) = "Err(InvalidProof)"
    /\ \A e \in Endpoints \ {<<>>} : verify_zktls(<<"b", "a", "d">>, e) = "Ok(false)"

\* C29: for a ZkTLS or Hybrid task, a proof submission that the verifier
\* rejects (verify_zktls returns false, or errors on an empty proof or
\* endpoint) aborts the call: the task's status, proof hash and verification
\* time are unchanged and no transfer is issued.
C29_RejectedProofChangesNothing ==
    /\ []VerifierRejects
    /\ [][\A w \in TaskCallers, id \in DOMAIN TASKS, b \in ProofBlobs, h \in ZkProofHashes :
             (/\ TASKS[id].proof_type \in {"ZkTLS", "Hybrid"}
              /\ \/ b = <<>>
                 \/ TASKS[id].endpoint = <<>>
                 \/ verify_zktls(b, TASKS[id].endpoint) = "Ok(false)"
              /\ execute_submit_zktls_proof(w, id, b, h))
                 => /\ TASKS'[id] = TASKS[id]
                    /\ task_transfers' = task_transfers
                    /\ balance' = balance
         ]_vars

C29_Witness ==
    /\ last.op = "create_task"
    /\ TASKS[last.id].status = "Escrowed"
    /\ TASKS[last.id].endpoint = <<>>
    /\ \A b \in ProofBlobs :
           execute_submit_zktls_proof_result(TaskWorkerWallet(TASKS[last.id]), last.id, b)
               = "InvalidProof"

\* C30: RefundIfExpired may be called by anyone; on a non-terminal escrowed task it
\* changes nothing while now < deadline, and from the deadline on it sends the
\* full amount back to the payer and sets the status to Refunded, after which
\* no transfer is issued for the task.
C30_RefundAtDeadline ==
    [][\A id \in DOMAIN TASKS :
          /\ \A w \in TaskCallers :
                 (/\ TASKS[id].proof_type # "Soft"
                  /\ TASKS[id].status \notin TaskTerminal
                  /\ execute_refund_if_expired(w, id))
                     => IF block_time < TASKS[id].deadline_ts
                        THEN UNCHANGED <<socialVars, taskVars>>
                        ELSE /\ TASKS'[id].status = "Refunded"
                             /\ task_transfers'[id] = Append(task_transfers[id],
                                    BankMsg("refund", TaskPayerWallet(TASKS[id]), TASKS[id].amount))
                             /\ Len(task_transfers'[id]) = 1
                             /\ balance' = balance - TASKS[id].amount
          /\ TASKS[id].status = "Refunded"
                 => TASKS'[id] = TASKS[id] /\ task_transfers'[id] = task_transfers[id]
      ]_vars

C30_Witness ==
    /\ last.op = "refund_if_expired"
    /\ TASKS[last.id].status = "Refunded"
    /\ last.sender \notin {TaskPayerWallet(TASKS[last.id]), TaskWorkerWallet(TASKS[last.id])}
    /\ block_time >= TASKS[last.id].deadline_ts
    /\ task_transfers[last.id] =
           <<BankMsg("refund", TaskPayerWallet(TASKS[last.id]), TASKS[last.id].amount)>>

\* Every call the roles exclude is refused.
TaskRolesRefuse ==
    /\ \A w \in Wallets, to \in Usernames, a \in Amounts, p \in TaskPolicies, f \in Funds :
           get_username_from_wallet(w) = to
               => execute_create_task_result(w, to, a, p[1], f) # "Ok"
    /\ \A id \in DOMAIN TASKS, w \in TaskCallers :
           /\ w # TaskWorkerWallet(TASKS[id])
                  => /\ execute_submit_soft_evidence_result(w, id) # "Ok"
                     /\ \A b \in ProofBlobs : execute_submit_zktls_proof_result(w, id, b) # "Ok"
           /\ w # TaskPayerWallet(TASKS[id])
                  => /\ execute_dispute_task_result(w, id) # "Ok"
                     /\ \A f \in Funds : execute_approve_task_result(w, id, f) # "Ok"

\* C31: task operations are restricted by role: only the worker submits
\* evidence or a zkTLS proof, only the payer approves a Soft task, only the
\* payer disputes, and no task has its payer as its worker; a call by any
\* other account fails and leaves the task unchanged.
C31_TaskRolesEnforced ==
    /\ []TaskRolesRefuse
    /\ [](\A id \in DOMAIN TASKS : TASKS[id].payer # TASKS[id].worker)
    /\ [][\A id \in DOMAIN TASKS, w \in TaskCallers :
             /\ (/\ w # TaskWorkerWallet(TASKS[id])
                 /\ \/ \E h \in EvidenceHashes : execute_submit_soft_evidence(w, id, h)
                    \/ \E b \in ProofBlobs, h \in ZkProofHashes :
                           execute_submit_zktls_proof(w, id, b, h))
                    => UNCHANGED <<socialVars, taskVars>>
             /\ (/\ w # TaskPayerWallet(TASKS[id])
                 /\ \/ execute_dispute_task(w, id)
                    \/ \E f \in Funds : execute_approve_task(w, id, f))
                    => UNCHANGED <<socialVars, taskVars>>
         ]_vars

\* A Soft task whose worker has submitted evidence, with a third registered
\* account that is neither its payer nor its worker.
C31_Witness ==
    /\ last.op = "submit_soft_evidence"
    /\ TASKS[last.id].proof_type = "Soft"
    /\ TASKS[last.id].evidence_hash # None
    /\ last.sender = TaskWorkerWallet(TASKS[last.id])
    /\ \E w \in Wallets :
           /\ get_username_from_wallet(w) \notin {None, TASKS[last.id].payer, TASKS[last.id].worker}
           /\ \A f \in Funds : execute_approve_task_result(w, last.id, f) = "OnlyPayerCanApproveSoft"

\* char::to_lowercase, over the characters in use.
lower_char(c) ==
    CASE c = "A" -> "a" [] c = "C" -> "c" [] c = "E" -> "e" [] c = "I" -> "i"
      [] c = "L" -> "l" [] OTHER -> c

to_lowercase(chars) == [i \in 1..Len(chars) |-> lower_char(chars[i])]

\* Two usernames that differ at most in letter case.
SameIgnoringCase(n1, n2) ==
    to_lowercase(username_chars(n1)) = to_lowercase(username_chars(n2))

\* C32: usernames are unique ignoring letter case: no two registered usernames
\* differ only in case, and GetUserByUsername and IsUsernameAvailable answer
\* alike for two names that differ only in case.
C32_UsernamesUniqueIgnoringCase ==
    \A n1, n2 \in RegistryUsernames :
        (n1 # n2 /\ SameIgnoringCase(n1, n2))
            => /\ USERS_BY_USERNAME[n1] = None \/ USERS_BY_USERNAME[n2] = None
               /\ query_username_available(n1) = query_username_available(n2)
               /\ query_user_by_username(n1) = query_user_by_username(n2)

\* The part of C32 that is about exact names: a registered name is taken.
ExactUsernameIsUnique ==
    \A n \in RegistryUsernames, w \in Wallets :
        USERS_BY_USERNAME[n] # None
            => /\ execute_register_user_result(w, n) # "Ok"
               /\ ~query_username_available(n)

\* DisputePayment is accepted exactly for a stored Pending payment, a caller
\* that is its sender or its recipient and a reason of 1 to 200 bytes; on a
\* Disputed payment the four calls all answer PaymentNotPending.
DisputeGuards ==
    /\ \A s \in CwAddrs, id \in CwIds, r \in ReasonLengths :
           execute_dispute_payment_result(s, id, r) = "Ok"
               <=> /\ id \in DOMAIN CW_PAYMENTS
                   /\ CW_PAYMENTS[id].status = "Pending"
                   /\ s \in {CW_PAYMENTS[id].sender, CW_PAYMENTS[id].recipient}
                   /\ r >= 1 /\ r <= MAX_REASON_LENGTH
    /\ \A id \in DOMAIN CW_PAYMENTS, s \in CwAddrs :
           CW_PAYMENTS[id].status = "Disputed"
               => /\ \A p \in ProofLengths :
                         execute_cw_submit_proof_result(s, id, p) = "PaymentNotPending"
                  /\ execute_complete_payment_result(s, id) = "PaymentNotPending"
                  /\ execute_cw_cancel_payment_result(s, id) = "PaymentNotPending"
                  /\ \A r \in ReasonLengths :
                         execute_dispute_payment_result(s, id, r) = "PaymentNotPending"

\* C33: DisputePayment succeeds only for the sender or recipient of a Pending
\* payment with a reason of 1 to 200 bytes and leaves it Disputed; from then
\* on SubmitProof, CompletePayment, CancelPayment and DisputePayment on that
\* payment id fail with PaymentNotPending, so the payment stays Disputed and
\* no release or refund is ever issued under its id.
C33_DisputedIsFrozen ==
    /\ []DisputeGuards
    /\ [][\A id \in DOMAIN CW_PAYMENTS :
              CW_PAYMENTS[id].status = "Disputed"
                  => /\ id \in DOMAIN CW_PAYMENTS'
                     /\ CW_PAYMENTS'[id].status = "Disputed"
                     /\ cw_transfers'[id] = cw_transfers[id]]_vars

\* The errors of the status and authorization checks of CompletePayment and
\* CancelPayment.
CwCheckErrors == {"PaymentNotFound", "PaymentNotPending", "Unauthorized", "ProofRequired"}

\* C34: whenever CompletePayment or CancelPayment passes its status and
\* authorization checks, the recipient's PENDING_BALANCES entry is at least
\* the payment's amount, so the debit current_pending - amount does not
\* underflow; and no entry of PENDING_BALANCES is ever negative.
C34_PendingDebitNeverUnderflows ==
    /\ \A a \in CwAddrs : PENDING_BALANCES[a] >= 0
    /\ \A s \in CwAddrs, id \in DOMAIN CW_PAYMENTS :
           /\ execute_complete_payment_result(s, id) \notin CwCheckErrors
                  => /\ PENDING_BALANCES[CW_PAYMENTS[id].recipient] >= CW_PAYMENTS[id].amount
                     /\ execute_complete_payment_result(s, id) # "Overflow"
           /\ execute_cw_cancel_payment_result(s, id) \notin CwCheckErrors
                  => /\ PENDING_BALANCES[CW_PAYMENTS[id].recipient] >= CW_PAYMENTS[id].amount
                     /\ execute_cw_cancel_payment_result(s, id) # "Overflow"

\* One payment was settled, its debit brought the recipient's entry to the
\* amount of a second payment that now passes the checks of CompletePayment.
C34_Witness ==
    \E id1, id2 \in DOMAIN CW_PAYMENTS :
        /\ id1 # id2
        /\ CW_PAYMENTS[id1].status \in {"Completed", "Cancelled"}
        /\ CW_PAYMENTS[id1].recipient = CW_PAYMENTS[id2].recipient
        /\ cw_transfers[id1] # <<>>
        /\ execute_complete_payment_result(CW_PAYMENTS[id2].sender, id2) = "Ok"
        /\ PENDING_BALANCES[CW_PAYMENTS[id2].recipient] = CW_PAYMENTS[id2].amount

\* C35: in the proofpay-cosmwasm contract total_users equals the number of
\* registered users, total_payments the number of stored payment records and
\* total_volume the sum of their amounts, and none of the three counters ever
\* decreases.
C35_StatsMatchStorage ==
    /\ [](/\ STATS.total_users = Cardinality(DOMAIN USERS)
          /\ STATS.total_payments = Cardinality(DOMAIN CW_PAYMENTS)
          /\ STATS.total_volume = SumPayments(DOMAIN CW_PAYMENTS))
    /\ [][/\ STATS'.total_users >= STATS.total_users
          /\ STATS'.total_payments >= STATS.total_payments
          /\ STATS'.total_volume >= STATS.total_volume]_vars

\* What holds of the counters: total_users counts the registered users, and
\* total_payments and total_volume count the accepted CreatePayment calls and
\* IBC receipts, so they never decrease and are never below what is stored.
StatsCountCalls ==
    /\ [](/\ STATS.total_users = Cardinality(DOMAIN USERS)
          /\ STATS.total_users = Cardinality(DOMAIN USERNAME_TO_ADDRESS)
          /\ STATS.total_payments >= Cardinality(DOMAIN CW_PAYMENTS)
          /\ STATS.total_volume >= SumPayments(DOMAIN CW_PAYMENTS))
    /\ [][/\ STATS'.total_users >= STATS.total_users
          /\ STATS'.total_payments >= STATS.total_payments
          /\ STATS'.total_volume >= STATS.total_volume]_vars

\* USER_PAYMENTS.may_load(address).unwrap_or_default()
UserPaymentsOf(address) ==
    IF address \in DOMAIN CW_USER_PAYMENTS THEN CW_USER_PAYMENTS[address] ELSE <<>>

Occurrences(list, id) == Cardinality({i \in 1..Len(list) : list[i] = id})

\* C36: every stored payment id of the proofpay-cosmwasm contract appears
\* exactly once in the USER_PAYMENTS list of its sender, exactly once in that
\* of its recipient and in no other account's list, whether the payment was
\* created by CreatePayment or by the IBC receive path.
C36_IndexedOnceUnderBothParties ==
    \A id \in DOMAIN CW_PAYMENTS, a \in CwAddrs \cup IbcSenders :
        Occurrences(UserPaymentsOf(a), id) =
            IF a \in {CW_PAYMENTS[id].sender, CW_PAYMENTS[id].recipient} THEN 1 ELSE 0

\* What holds of the index: a stored id is listed under its recipient, under
\* its sender too when CreatePayment stored it, and under no third account.
IndexedUnderPartiesOnly ==
    \A id \in DOMAIN CW_PAYMENTS, a \in CwAddrs \cup IbcSenders :
        /\ a \notin {CW_PAYMENTS[id].sender, CW_PAYMENTS[id].recipient}
               => Occurrences(UserPaymentsOf(a), id) = 0
        /\ a = CW_PAYMENTS[id].recipient => Occurrences(UserPaymentsOf(a), id) >= 1
        /\ (a = CW_PAYMENTS[id].sender /\ Len(id) = 4)
               => Occurrences(UserPaymentsOf(a), id) >= 1

\* The outcome of a CompletePayment that passed the handler's checks: the
\* handler returns Ok with the release message, which the bank executes when
\* the payment is native and refuses when the contract cannot cover it.
CompleteOutcome(payment) ==
    IF payment.token = <<>> /\ ~BankSendOk(cw_balance, payment.amount)
    THEN "BankError" ELSE "Ok"

TransfersOf(log, id) == IF id \in DOMAIN log THEN log[id] ELSE <<>>

\* The funds a step's call attaches for record id besides those attached at
\* its creation: ApprovePayment is the only other call that carries funds.
ApproveFunds(call, id) ==
    IF call.op = "approve_payment" /\ call.id = id THEN call.funds ELSE 0

\* Total solvency: the contract's bank balance is the funds attached to the
\* successful calls minus the transfers issued, and is never negative.
TotalSolvency == balance >= 0 /\ cw_balance >= 0

\* C38: solvency. The transfers issued by the contract never exceed in total
\* the funds attached to the successful calls it received, and whenever a
\* call issues a transfer for a record, the amount transferred out for that
\* record so far does not exceed the funds attached for that record.
C38_Solvency ==
    /\ []TotalSolvency
    /\ [][\A id \in DOMAIN transfers' :
              transfers'[id] # TransfersOf(transfers, id)
                  => SumAmounts(transfers'[id]) <= attached'[id] + ApproveFunds(last', id)]_vars

\* The registry binds wallet w and username n to each other.
Registered(w, n) == USERS_BY_WALLET[w] = n /\ USERS_BY_USERNAME[n] = w

\* C39: the user registry of the social contract is one-to-one: wallet w is
\* bound to username n in USERS_BY_WALLET exactly when n is bound to w in
\* USERS_BY_USERNAME, no two wallets share a username and no two usernames a
\* wallet; and no call, UpdateUserProfile included, removes or re-binds a
\* registration.
C39_RegistryOneToOne ==
    /\ [](/\ \A w \in DOMAIN USERS_BY_WALLET, n \in DOMAIN USERS_BY_USERNAME :
                 USERS_BY_WALLET[w] = n <=> USERS_BY_USERNAME[n] = w
          /\ \A w1, w2 \in DOMAIN USERS_BY_WALLET :
                 (USERS_BY_WALLET[w1] # None /\ USERS_BY_WALLET[w1] = USERS_BY_WALLET[w2])
                     => w1 = w2
          /\ \A n1, n2 \in DOMAIN USERS_BY_USERNAME :
                 (USERS_BY_USERNAME[n1] # None /\ USERS_BY_USERNAME[n1] = USERS_BY_USERNAME[n2])
                     => n1 = n2)
    /\ [][\A w \in DOMAIN USERS_BY_WALLET, n \in DOMAIN USERS_BY_USERNAME :
              Registered(w, n) => Registered(w, n)']_vars

\* Two wallets are registered and one of them has just updated its profile.
C39_Witness ==
    /\ last.op = "update_user_profile"
    /\ \E w \in Wallets : w # last.sender /\ USERS_BY_WALLET[w] # None
    /\ Registered(last.sender, USERS_BY_WALLET[last.sender])

\* C40: friendship is symmetric and irreflexive: FRIENDSHIPS holds (a, b)
\* exactly when it holds (b, a), and never holds (a, a), after any sequence
\* of SendFriendRequest, AcceptFriendRequest, DeclineFriendRequest and
\* RemoveFriend calls.
C40_FriendshipSymmetricIrreflexive ==
    \A a, b \in Usernames :
        /\ <<a, b>> \in FRIENDSHIPS <=> <<b, a>> \in FRIENDSHIPS
        /\ <<a, a>> \notin FRIENDSHIPS

\* A friend has just been removed while another friendship stands.
C40_Witness ==
    /\ last.op = "remove_friend"
    /\ FRIENDSHIPS # {}
    /\ \E key \in DOMAIN FRIEND_REQUESTS :
           FRIEND_REQUESTS[key] = "Accepted" /\ key \notin FRIENDSHIPS

====
